---- MODULE Spec2Model ----
(***************************************************************************)
(* Model of the duplicate-issue detection pipeline of issue-scribe-ai-flow *)
(* (services/frontendMCP.ts, services/githubSearch.ts) and of the          *)
(* conversation fetch (services/intercomApi.ts).                           *)
(*                                                                         *)
(* JavaScript strings are modelled as sequences of one-character strings,  *)
(* so that trim, length, includes, split and the regular expressions of    *)
(* the source are computed and not assumed.  Numbers that are fractions in *)
(* the source (similarity scores) are exact rationals <<n, d>> with d > 0. *)
(***************************************************************************)
EXTENDS Integers, Sequences, FiniteSets, TLC

VARIABLES
    template,        \* GitHubIssueTemplate handed to analyzeForDuplicates: [title, body]
    context,         \* EnhancedIssueContext: [errorMessages, appId]
    config,          \* MCPConfig of the client: [useLocalAI, maxResults]
    tracker,         \* the issues that exist in the configured repositories (ids)
    pc,              \* position of the run inside analyzeWithOpenAI
    searchQueries,   \* frontendMCP.ts:135
    qi,              \* index of the query the for-loop of line 140 is at
    allFoundIssues,  \* frontendMCP.ts:138
    uniqueIssues,    \* frontendMCP.ts:158
    analyzedIssues,  \* frontendMCP.ts:166
    sortedResults,   \* frontendMCP.ts:221, the value the run resolves with
    searchesFailed,  \* history: number of search calls of this run that threw
    searchesOk,      \* history: number of search calls of this run that returned
    returned,        \* history: the issue copies carried by the successful searches' responses
    judgeFailed,     \* history: ids whose judge call threw or whose response could not be used
    conversationId,  \* argument of fetchConversation
    fetchPc,         \* position inside fetchConversation
    fetchCalls,      \* number of fetchConversation calls made so far
    requests,        \* history: the GET requests issued to the conversation API
    requestsAtCall,  \* history: Len(requests) when the call at hand was made
    apiResponse,     \* the ApiResponse fetchConversation resolves with
    rawConversation, \* argument of processConversationData (IntercomConversation)
    normPc,          \* position inside processConversationData
    processed,       \* the ProcessedConversation it returns
    engine,          \* WebLLMService.engine: "absent", "loading", "ready" or "failed"
    hookPc,          \* position inside useFrontendMCP.analyzeForDuplicates
    analysisResult,  \* the MCPAnalysisResult the hook resolves with
    hookError,       \* message of the error the hook rejects with
    currentStep,     \* Index.tsx:26
    indexConversationId, \* Index.tsx:27, conversationId of the page; 0 is null
    mcpAnalysisResult,   \* Index.tsx:32: the run whose result is stored; 0 is null
    conversationCache,   \* query cache: the conversations whose data is loaded
    bugDetectionCache,   \* query cache: the bug-detection result per conversation
    inFlight,        \* the duplicate-analysis runs started by handleEnhancedSubmit and pending
    abandoned,       \* history: the runs that were in flight at a reset or a new analysis
    runsStarted,     \* number of runs started so far
    createIssueCalls, \* number of createIssueMutation.mutateAsync calls
    queryOp,         \* the query or mutation at hand: conversation, bugDetection, createIssue
    queryInput,      \* its input
    queryPc,         \* idle, running, waitingRetry, success or error
    failureCount,    \* failureCount of the query's retryer
    invocations,     \* history: number of times the operation was invoked
    failures,        \* history: the class of the error each failed invocation threw
    queryRequests,   \* history: number of network requests it issued
    issuesCreated,   \* history: issues the tracker created for the mutation's requests
    tokenConfig,     \* the MCPConfig handed to validateConfiguration
    tokenPc,         \* position inside validateConfiguration / validateToken
    userAnswer,      \* history: what the user endpoint answered
    probeAnswer,     \* history: what the probe search answered
    tokenValidation, \* what validateToken resolves with
    searchProbes,    \* history: number of probe searches made
    configValidation, \* what validateConfiguration resolves with
    searchResponse,  \* the answer of fetch to one searchIssues call
    searchResult,    \* what that searchIssues call ends in
    gateConversation, \* the conversation id the two query hooks are mounted with; 0: none
    gateQueries,     \* by conversation id: state of its conversation query
    bugDetectionIssued, \* history: the conversation ids detectBugFromConversation was called for
    createIssueStatus, \* createIssueMutation: idle, pending, success or error
    createIssueData, \* createIssueMutation.data: the number of the issue created; 0: none
    createdIssue,    \* the page's createdIssue state; 0: null
    enhancedContext, \* whether the page's enhancedContext state is set
    trackerRequests, \* history: the write requests sent to the tracker, by kind
    lastSuggestionToast, \* history: the toast of the last suggested action chosen
    keywordText, \* the text extractKeywords is called with
    keywordPc, \* idle or returned
    keywords, \* what extractKeywords returned
    client,          \* useFrontendMCP: the client held, [held, config] (part_001 line 8)
    loading,         \* useFrontendMCP: loading (line 9)
    initError,       \* useFrontendMCP: error (line 10), [set, errors]
    initPc,          \* position of the initialize call: idle, validating, resolved, rejected
    initializeCalls,  \* history: number of initialize calls
    serviceOp,       \* the service function called, "none" before the first call
    serviceInput,    \* its argument, or the environment it reads
    servicePc,       \* position of the call: idle, pending, resolved
    serviceResponse, \* the ApiResponse the call resolved with
    serviceCalls     \* history: number of calls made

vars == << template, context, config, tracker, pc, searchQueries, qi, allFoundIssues,
           uniqueIssues, analyzedIssues, sortedResults, searchesFailed, searchesOk,
           returned, judgeFailed, conversationId, fetchPc, fetchCalls, requests,
           requestsAtCall, apiResponse, rawConversation, normPc, processed,
           engine, hookPc, analysisResult, hookError, currentStep, indexConversationId,
           mcpAnalysisResult, conversationCache, bugDetectionCache, inFlight, abandoned,
           runsStarted, createIssueCalls, queryOp, queryInput, queryPc, failureCount,
           invocations, failures, queryRequests, issuesCreated, tokenConfig, tokenPc, userAnswer,
           probeAnswer, tokenValidation, searchProbes, configValidation, searchResponse,
           searchResult, gateConversation, gateQueries, bugDetectionIssued,
           createIssueStatus, createIssueData, createdIssue, enhancedContext,
           trackerRequests, lastSuggestionToast,
           keywordText, keywordPc, keywords,
           client, loading, initError, initPc, initializeCalls,
           serviceOp, serviceInput, servicePc, serviceResponse, serviceCalls >>

runVars == << template, context, config, tracker, pc, searchQueries, qi, allFoundIssues,
              uniqueIssues, analyzedIssues, sortedResults, searchesFailed, searchesOk,
              returned, judgeFailed >>

runVarsButPc == << template, context, config, tracker, searchQueries, qi, allFoundIssues,
                  uniqueIssues, analyzedIssues, sortedResults, searchesFailed, searchesOk,
                  returned, judgeFailed >>

fetchVars == << conversationId, fetchPc, fetchCalls, requests, requestsAtCall, apiResponse >>

normVars == << rawConversation, normPc, processed >>

\* the variables of the other operations, which a run and a fetch leave alone
hookVars == << engine, hookPc, analysisResult, hookError >>

pageVars == << currentStep, indexConversationId, mcpAnalysisResult, conversationCache,
              bugDetectionCache, inFlight, abandoned, runsStarted, createIssueCalls >>

queryVars == << queryOp, queryInput, queryPc, failureCount, invocations, failures,
               queryRequests, issuesCreated >>

tokenVars == << tokenConfig, tokenPc, userAnswer, probeAnswer, tokenValidation, searchProbes,
               configValidation >>

searchVars == << searchResponse, searchResult >>

gateVars == << gateConversation, gateQueries, bugDetectionIssued >>

issueVars == << createIssueStatus, createIssueData, createdIssue,
               enhancedContext, trackerRequests, lastSuggestionToast >>

keywordVars == << keywordText, keywordPc, keywords >>

clientVars == << client, loading, initError, initPc, initializeCalls >>

serviceVars == << serviceOp, serviceInput, servicePc, serviceResponse, serviceCalls >>

extraVars == << gateVars, issueVars, keywordVars, clientVars, serviceVars >>

auxVars == << normVars, hookVars, pageVars, queryVars, tokenVars, searchVars, extraVars >>

----------------------------------------------------------------------------
(* JavaScript string primitives                                            *)

Digits == {"0", "1", "2", "3", "4", "5", "6", "7", "8", "9"}

LowerCaseLetters == <<"a", "b", "c", "d", "e", "f", "g", "h", "i", "j", "k", "l", "m",
                      "n", "o", "p", "q", "r", "s", "t", "u", "v", "w", "x", "y", "z">>

UpperCaseLetters == <<"A", "B", "C", "D", "E", "F", "G", "H", "I", "J", "K", "L", "M",
                      "N", "O", "P", "Q", "R", "S", "T", "U", "V", "W", "X", "Y", "Z">>

Range(f) == {f[i] : i \in DOMAIN f}

\* \w of a JavaScript regular expression
WordChars == Range(LowerCaseLetters) \cup Range(UpperCaseLetters) \cup Digits \cup {"_"}

\* \s of a JavaScript regular expression, and what String.prototype.trim removes
WhiteSpace == {" ", "\t", "\n"}

Min(a, b) == IF a <= b THEN a ELSE b

lowerChar(c) ==
    IF \E i \in DOMAIN UpperCaseLetters : UpperCaseLetters[i] = c
    THEN LowerCaseLetters[CHOOSE i \in DOMAIN UpperCaseLetters : UpperCaseLetters[i] = c]
    ELSE c

\* String.prototype.toLowerCase
toLowerCase(s) == [i \in 1..Len(s) |-> lowerChar(s[i])]

\* String.prototype.trim
trim(s) ==
    LET keep == {i \in 1..Len(s) : s[i] \notin WhiteSpace}
    IN  IF keep = {} THEN <<>>
        ELSE LET first == CHOOSE i \in keep : \A j \in keep : i <= j
                 last  == CHOOSE i \in keep : \A j \in keep : j <= i
             IN  SubSeq(s, first, last)

\* String.prototype.includes
includes(s, p) ==
    \E i \in 1..(Len(s) - Len(p) + 1) : SubSeq(s, i, i + Len(p) - 1) = p

\* String.prototype.substring(0, n)
substring0(s, n) == SubSeq(s, 1, Min(n, Len(s)))

\* Array.prototype.slice(0, n) for n >= 0
slice0(arr, n) == SubSeq(arr, 1, Min(n, Len(arr)))

\* Array.prototype.indexOf, 1-based; 0 when absent
indexOf(arr, x) ==
    IF \E i \in 1..Len(arr) : arr[i] = x
    THEN CHOOSE i \in 1..Len(arr) : arr[i] = x /\ \A j \in 1..(i - 1) : arr[j] # x
    ELSE 0

\* arr.filter(keep) for a predicate given as the set of indexes it keeps
RECURSIVE filterIdx(_, _, _)
filterIdx(arr, keep, i) ==
    IF i > Len(arr) THEN <<>>
    ELSE (IF i \in keep THEN <<arr[i]>> ELSE <<>>) \o filterIdx(arr, keep, i + 1)

\* [...new Set(arr)] and arr.filter((x, i, a) => a.indexOf(x) === i):
\* the first occurrence of every value, in order
uniqueFirst(arr) == filterIdx(arr, {i \in 1..Len(arr) : indexOf(arr, arr[i]) = i}, 1)

\* String.prototype.split(/\s+/): the pieces between maximal runs of whitespace,
\* the empty piece before a leading run and after a trailing run included
RECURSIVE splitFrom(_, _, _)
splitFrom(s, i, cur) ==
    IF i > Len(s) THEN <<cur>>
    ELSE IF s[i] \in WhiteSpace
         THEN IF i > 1 /\ s[i - 1] \in WhiteSpace
              THEN splitFrom(s, i + 1, cur)
              ELSE <<cur>> \o splitFrom(s, i + 1, <<>>)
         ELSE splitFrom(s, i + 1, Append(cur, s[i]))

splitWhitespace(s) == splitFrom(s, 1, <<>>)

\* \b at the gap before position p (1..Len(s)+1)
wordBoundary(s, p) ==
    LET before == p > 1 /\ s[p - 1] \in WordChars
        after  == p <= Len(s) /\ s[p] \in WordChars
    IN  before # after

\* whether /\b(term)\b/i matches s at position i
termMatchesAt(s, term, i) ==
    /\ i + Len(term) - 1 <= Len(s)
    /\ toLowerCase(SubSeq(s, i, i + Len(term) - 1)) = term
    /\ wordBoundary(s, i)
    /\ wordBoundary(s, i + Len(term))

\* s.match(/\b(t1|t2|...)\b/gi): the matched texts, left to right, not overlapping;
\* at one position the first alternative that lets the whole expression match wins
RECURSIVE matchTerms(_, _, _)
matchTerms(s, terms, i) ==
    IF i > Len(s) THEN <<>>
    ELSE LET hits == {k \in 1..Len(terms) : termMatchesAt(s, terms[k], i)}
         IN  IF hits = {} THEN matchTerms(s, terms, i + 1)
             ELSE LET k == CHOOSE h \in hits : \A g \in hits : h <= g
                      n == Len(terms[k])
                  IN  <<SubSeq(s, i, i + n - 1)>> \o matchTerms(s, terms, i + n)

\* a template literal `${a} ${b}`
joinSpace(a, b) == a \o <<" ">> \o b

----------------------------------------------------------------------------
(* FrontendMCPClient.generateSearchQueries                                 *)

\* the categories of problemPatterns, in the order of Object.entries
categoryNames == <<"loading_issues", "error_patterns", "server_issues", "auth_issues",
                   "ui_components">>

problemPatterns ==
    [ loading_issues |-> << <<"n","o","t"," ","l","o","a","d","i","n","g">>, <<"n","o","t"," ","s","h","o","w","i","n","g">>, <<"n","o","t"," ","d","i","s","p","l","a","y","i","n","g">>,
                            <<"n","o","t"," ","a","p","p","e","a","r","i","n","g">>, <<"m","i","s","s","i","n","g">>, <<"b","l","a","n","k">> >>,
      error_patterns |-> << <<"e","r","r","o","r">>, <<"f","a","i","l","e","d">>, <<"f","a","i","l","u","r","e">>, <<"b","r","o","k","e","n">>, <<"i","s","s","u","e">>,
                            <<"p","r","o","b","l","e","m">> >>,
      server_issues  |-> << <<"s","e","r","v","e","r"," ","e","r","r","o","r">>, <<"i","n","t","e","r","n","a","l"," ","e","r","r","o","r">>, <<"5","0","0">>, <<"5","0","2">>, <<"5","0","3">>,
                            <<"5","0","4">>, <<"b","a","c","k","e","n","d">>, <<"a","p","i"," ","e","r","r","o","r">> >>,
      auth_issues    |-> << <<"a","u","t","h","e","n","t","i","c","a","t","i","o","n">>, <<"l","o","g","i","n">>, <<"s","i","g","n","i","n">>, <<"u","n","a","u","t","h","o","r","i","z","e","d">>,
                            <<"4","0","1">>, <<"4","0","3">> >>,
      ui_components  |-> << <<"m","e","s","s","e","n","g","e","r">>, <<"w","i","d","g","e","t">>, <<"c","h","a","t">>, <<"p","o","p","u","p">>, <<"m","o","d","a","l">>,
                            <<"b","u","t","t","o","n">>, <<"f","o","r","m">> >> ]

loadingQueries == << <<"n","o","t"," ","s","h","o","w","i","n","g">>, <<"n","o","t"," ","l","o","a","d","i","n","g">>, <<"n","o","t"," ","d","i","s","p","l","a","y","i","n","g">>, <<"n","o","t"," ","a","p","p","e","a","r","i","n","g">> >>

serverQueries == << <<"s","e","r","v","e","r"," ","e","r","r","o","r">>, <<"i","n","t","e","r","n","a","l"," ","e","r","r","o","r">>, <<"5","0","0"," ","e","r","r","o","r">>, <<"b","a","c","k","e","n","d"," ","e","r","r","o","r">>,
                    <<"a","p","i"," ","e","r","r","o","r">> >>

authQueries == << <<"a","u","t","h","e","n","t","i","c","a","t","i","o","n">>, <<"l","o","g","i","n">>, <<"u","n","a","u","t","h","o","r","i","z","e","d">>, <<"4","0","1">> >>

\* the alternatives of the regular expression of line 285, in its order
technicalVocabulary ==
    << <<"a","p","i">>, <<"w","i","d","g","e","t">>, <<"m","e","s","s","e","n","g","e","r">>, <<"c","h","a","t">>, <<"a","u","t","h","e","n","t","i","c","a","t","i","o","n">>, <<"l","o","g","i","n">>,
       <<"w","e","b","h","o","o","k">>, <<"i","n","t","e","g","r","a","t","i","o","n">>, <<"p","o","p","u","p">>, <<"m","o","d","a","l">>, <<"i","f","r","a","m","e">>, <<"s","c","r","i","p","t">>, <<"c","d","n">>,
       <<"c","o","r","s">>, <<"s","s","l">>, <<"t","l","s">>, <<"o","a","u","t","h">>, <<"j","w","t">>, <<"s","e","s","s","i","o","n">>, <<"c","o","o","k","i","e">>, <<"t","o","k","e","n">> >>

genericQueries == << <<"e","r","r","o","r">>, <<"i","s","s","u","e">>, <<"p","r","o","b","l","e","m">>, <<"b","u","g">>, <<"f","a","i","l","e","d">>, <<"b","r","o","k","e","n">> >>

\* the alternatives of the regular expression of line 314, in its order
errorVocabulary ==
    << <<"e","r","r","o","r">>, <<"e","x","c","e","p","t","i","o","n">>, <<"f","a","i","l","e","d">>, <<"t","i","m","e","o","u","t">>, <<"r","e","f","u","s","e","d">>, <<"f","o","r","b","i","d","d","e","n">>,
       <<"u","n","a","u","t","h","o","r","i","z","e","d">>, <<"n","o","t"," ","f","o","u","n","d">>, <<"b","a","d"," ","r","e","q","u","e","s","t">> >>

fallbackQueries == << <<"e","r","r","o","r">>, <<"i","s","s","u","e">>, <<"b","u","g">> >>

MaxTechnicalTerms == 3
MaxErrorTerms == 2
MinErrorTextLength == 10
MinQueriesForAppId == 3
MinQueryLength == 2
MaxQueryLength == 50
MaxQueries == 8

\* `${titleLower} ${bodyLower}`
fullTextOf(t) == joinSpace(toLowerCase(t.title), toLowerCase(t.body))

\* step 2: the categories one of whose patterns is a substring of the text
detectedCategories(fullText) ==
    filterIdx(categoryNames,
              {k \in 1..Len(categoryNames) :
                  \E j \in 1..Len(problemPatterns[categoryNames[k]]) :
                      includes(fullText, problemPatterns[categoryNames[k]][j])},
              1)

lowerAll(arr) == [i \in 1..Len(arr) |-> toLowerCase(arr[i])]

\* the array `queries` as it stands before step 9 (lines 235-326)
rawQueries(t, c) ==
    LET fullText == fullTextOf(t)
        detected == Range(detectedCategories(fullText))
        q3a == IF "loading_issues" \in detected /\ "ui_components" \in detected
               THEN loadingQueries ELSE <<>>
        q3b == IF "server_issues" \in detected THEN serverQueries ELSE <<>>
        q3c == IF "auth_issues" \in detected THEN authQueries ELSE <<>>
        q4  == slice0(uniqueFirst(lowerAll(matchTerms(fullText, technicalVocabulary, 1))),
                      MaxTechnicalTerms)
        q6a == IF includes(fullText, <<"m","e","s","s","e","n","g","e","r">>) \/ includes(fullText, <<"c","h","a","t">>)
               THEN << <<"m","e","s","s","e","n","g","e","r">>, <<"c","h","a","t">> >> ELSE <<>>
        q6b == IF includes(fullText, <<"w","i","d","g","e","t">>) \/ includes(fullText, <<"p","o","p","u","p">>)
               THEN << <<"w","i","d","g","e","t">>, <<"p","o","p","u","p">> >> ELSE <<>>
        q7  == IF Len(c.errorMessages) > MinErrorTextLength
               THEN slice0(uniqueFirst(lowerAll(matchTerms(c.errorMessages,
                                                           errorVocabulary, 1))),
                           MaxErrorTerms)
               ELSE <<>>
        upTo7 == q3a \o q3b \o q3c \o q4 \o genericQueries \o q6a \o q6b \o q7
        q8  == IF c.appId # <<>> /\ Len(upTo7) > MinQueriesForAppId
               THEN <<c.appId>> ELSE <<>>
    IN  upTo7 \o q8

trimAll(arr) == [i \in 1..Len(arr) |-> trim(arr[i])]

withinLength(arr) ==
    filterIdx(arr, {i \in 1..Len(arr) :
                       Len(arr[i]) > MinQueryLength /\ Len(arr[i]) < MaxQueryLength}, 1)

\* mutant: the duplicate filter of line 332 left out
cleanQueriesNoDedupe(queries) == slice0(withinLength(trimAll(queries)), MaxQueries)

\* mutant: the length filter of line 331 and the cap of line 333 left out
cleanQueriesNoBounds(queries) == uniqueFirst(trimAll(queries))

\* step 9 (lines 329-333)
cleanQueries(queries) == slice0(uniqueFirst(withinLength(trimAll(queries))), MaxQueries)

\* lines 234-343
generateSearchQueries(t, c) ==
    LET clean == cleanQueries(rawQueries(t, c))
    IN  IF Len(clean) > 0 THEN clean ELSE fallbackQueries

----------------------------------------------------------------------------
(* Numbers: similarity scores are exact rationals <<n, d>>, d > 0.         *)
(* Undefined stands for a score that is no number (the property missing    *)
(* from the judge's JSON, or not numeric): every comparison with it is     *)
(* false and every subtraction with it is NaN, as in JavaScript.           *)

Undefined == <<0, 0>>

IsNumber(x) == x[2] # 0

numGE(a, b) == IsNumber(a) /\ IsNumber(b) /\ a[1] * b[2] >= b[1] * a[2]

numLT(a, b) == IsNumber(a) /\ IsNumber(b) /\ a[1] * b[2] < b[1] * a[2]

numEQ(a, b) == IsNumber(a) /\ IsNumber(b) /\ a[1] * b[2] = b[1] * a[2]

One == <<1, 1>>

DuplicateThreshold == <<8, 10>>

RelatedThreshold == <<6, 10>>

----------------------------------------------------------------------------
(* The issue tracker (GitHub search API), the environment of the run       *)

NumIssues == 3

Issues == 1..NumIssues

\* title and body of the issues that may exist, by id; the body of issue 4 is null
issueTitles == << <<"L","o","g","i","n"," ","e","r","r","o","r">>, <<"W","i","d","g","e","t"," ","n","o","t"," ","l","o","a","d","i","n","g">>, <<"S","e","r","v","e","r"," ","e","r","r","o","r">>,
                  <<"B","r","o","k","e","n"," ","l","o","g","i","n"," ","p","a","g","e">>, <<"C","h","a","t"," ","p","o","p","u","p"," ","p","r","o","b","l","e","m">> >>

issueBodies == << <<"4","0","1"," ","u","n","a","u","t","h","o","r","i","z","e","d">>, <<"c","h","a","t"," ","w","i","d","g","e","t"," ","b","l","a","n","k">>, <<"a","p","i"," ","r","e","t","u","r","n","s"," ","5","0","0"," ","b","u","g">>,
                  <<>>, <<"p","o","p","u","p"," ","i","s","s","u","e">> >>

PerPage == 20

\* the ids in s, highest first
RECURSIVE descending(_)
descending(s) ==
    IF s = {} THEN <<>>
    ELSE LET m == CHOOSE x \in s : \A y \in s : y <= x
         IN  <<m>> \o descending(s \ {m})

\* data.items of a 200 response to the search for `query`, issued as the k-th search of
\* the run: the existing issues whose text holds the query, most recently updated (here:
\* highest id) first, one page.  fromQuery records which response object carries the copy.
searchItems(existing, query, k) ==
    LET hits == {i \in existing :
                    includes(toLowerCase(joinSpace(issueTitles[i], issueBodies[i])), query)}
        ids  == slice0(descending(hits), PerPage)
    IN  [j \in 1..Len(ids) |-> [id |-> ids[j], fromQuery |-> k]]

\* what fetch may answer: a rejected promise, or a response with a status
SearchResponses(existing, query, k) ==
    { [kind |-> "network_error", status |-> 0, items |-> <<>>] }
    \cup { [kind |-> "http", status |-> s, items |-> <<>>] : s \in {403, 422, 500} }
    \cup { [kind |-> "http", status |-> 200, items |-> searchItems(existing, query, k)] }

\* GitHubSearchService.searchIssues, lines 57-104, on the answer of fetch
searchIssues(response) ==
    IF response.kind = "network_error"
    THEN [threw |-> TRUE, error |-> "network", status |-> 0, issues |-> <<>>]
    ELSE IF ~(response.status >= 200 /\ response.status <= 299)
         THEN [threw |-> TRUE,
               error |-> IF response.status = 403 THEN "rate_limit"
                         ELSE IF response.status = 422 THEN "invalid_query"
                         ELSE "api_error",
               \* only the message of line 81 names the status
               status |-> IF response.status \in {403, 422} THEN 0 ELSE response.status,
               issues |-> <<>>]
         ELSE [threw |-> FALSE, error |-> "none", status |-> 0, issues |-> response.items]

----------------------------------------------------------------------------
(* Similarity scoring                                                      *)

\* the distinct words of a text: new Set(text.split(/\s+/))
wordSet(text) == Range(splitWhitespace(text))

BoostPrefix == 50

\* FrontendMCPClient.calculateBasicSimilarity, lines 477-506
calculateBasicSimilarity(issue, t, c) ==
    LET issueText    == toLowerCase(joinSpace(issueTitles[issue.id], issueBodies[issue.id]))
        templateText == toLowerCase(joinSpace(t.title, t.body))
        issueWords    == wordSet(issueText)
        templateWords == wordSet(templateText)
        intersection  == issueWords \cap templateWords
        union         == issueWords \cup templateWords
        errorText     == toLowerCase(c.errorMessages)
        boosted == /\ Len(c.errorMessages) > 0
                   /\ \/ includes(issueText, errorText)
                      \/ includes(errorText, substring0(issueText, BoostPrefix))
        n == IF boosted THEN 5 * Cardinality(intersection) + Cardinality(union)
                        ELSE Cardinality(intersection)
        d == IF boosted THEN 5 * Cardinality(union) ELSE Cardinality(union)
    IN  IF n >= d THEN One ELSE <<n, d>>

\* what the judge call of lines 568-580 may produce: a rejected call, a response without
\* content, content JSON.parse cannot use, or a JSON object whose similarity_score is any
\* JSON value
JudgeScores == { <<65, 100>>, <<85, 100>>, <<150, 100>>, Undefined }

JudgeOutcomes ==
    { [kind |-> k, similarity_score |-> Undefined] : k \in {"throws", "no_content", "unparsable"} }
    \cup { [kind |-> "json", similarity_score |-> s] : s \in JudgeScores }

\* mutant: the catch block of line 586 gives up on the candidate with score 0
fallbackResultZero(existingIssue, t, c) ==
    [ score |-> <<0, 1>>, reasoning |-> "AI analysis failed" ]

\* the catch block of lines 586-597
fallbackResult(existingIssue, t, c) ==
    [ score |-> calculateBasicSimilarity(existingIssue, t, c),
      reasoning |-> "Fallback to basic similarity (AI analysis failed)" ]

\* FrontendMCPClient.calculateSemanticSimilarity, lines 508-598
calculateSemanticSimilarity(existingIssue, t, c, useAI, hasOpenAI, judge) ==
    IF ~useAI \/ ~hasOpenAI
    THEN [ score |-> calculateBasicSimilarity(existingIssue, t, c),
           reasoning |-> "Basic word similarity calculation (AI not available)" ]
    ELSE IF judge.kind = "json"
         THEN [ score |-> judge.similarity_score, reasoning |-> "judge" ]
         ELSE fallbackResult(existingIssue, t, c)

\* mutant: the duplicate threshold of line 188 taken at the related threshold of line 191
classifyAtRelated(score) ==
    IF numGE(score, RelatedThreshold)
    THEN [relationship_type |-> "duplicate", suggested_action |-> "merge"]
    ELSE [relationship_type |-> "related", suggested_action |-> "reference"]

\* mutant: a candidate below the related threshold takes the prompt's 'create_new'
classifyWithCreateNew(score) ==
    IF numGE(score, DuplicateThreshold)
    THEN [relationship_type |-> "duplicate", suggested_action |-> "merge"]
    ELSE IF numGE(score, RelatedThreshold)
         THEN [relationship_type |-> "related", suggested_action |-> "reference"]
         ELSE [relationship_type |-> "related", suggested_action |-> "create_new"]

\* lines 185-194
classify(score) ==
    IF numGE(score, DuplicateThreshold)
    THEN [relationship_type |-> "duplicate", suggested_action |-> "merge"]
    ELSE IF numGE(score, RelatedThreshold)
         THEN [relationship_type |-> "related", suggested_action |-> "reference"]
         ELSE [relationship_type |-> "related", suggested_action |-> "reference"]

\* lines 196-202
analyzedEntry(issue, semanticAnalysis) ==
    [ issue |-> issue,
      similarity_score |-> semanticAnalysis.score,
      relationship_type |-> classify(semanticAnalysis.score).relationship_type,
      reasoning |-> semanticAnalysis.reasoning,
      suggested_action |-> classify(semanticAnalysis.score).suggested_action ]

----------------------------------------------------------------------------
(* Deduplication and ranking                                               *)

\* arr.findIndex(i => i.id === id), 1-based
findIndexById(arr, id) ==
    CHOOSE i \in 1..Len(arr) : arr[i].id = id /\ \A j \in 1..(i - 1) : arr[j].id # id

\* mutant: the last copy of an id is kept
uniqueByIdLast(arr) ==
    filterIdx(arr, {i \in 1..Len(arr) : \A j \in (i + 1)..Len(arr) : arr[j].id # arr[i].id}, 1)

\* lines 158-160
uniqueById(arr) ==
    filterIdx(arr, {i \in 1..Len(arr) : findIndexById(arr, arr[i].id) = i}, 1)

\* the comparator of line 222 is a consistent comparison function unless a score that is
\* no number (it compares equal to everything) stands among two different numbers
consistentComparator(arr) ==
    \/ \A i \in 1..Len(arr) : IsNumber(arr[i].similarity_score)
    \/ \A i, j \in 1..Len(arr) :
          (IsNumber(arr[i].similarity_score) /\ IsNumber(arr[j].similarity_score))
              => numEQ(arr[i].similarity_score, arr[j].similarity_score)

\* one step of a stable descending sort: e goes behind everything that does not sort after it
insertDescending(sorted, e) ==
    LET k == Cardinality({i \in 1..Len(sorted) :
                             ~numLT(sorted[i].similarity_score, e.similarity_score)})
    IN  SubSeq(sorted, 1, k) \o <<e>> \o SubSeq(sorted, k + 1, Len(sorted))

RECURSIVE stableSortFrom(_, _, _)
stableSortFrom(arr, i, sorted) ==
    IF i > Len(arr) THEN sorted
    ELSE stableSortFrom(arr, i + 1, insertDescending(sorted, arr[i]))

permutationsOf(arr) ==
    { [i \in 1..Len(arr) |-> arr[p[i]]] :
        p \in {f \in [1..Len(arr) -> 1..Len(arr)] : \A i, j \in 1..Len(arr) : f[i] = f[j] => i = j} }

\* Array.prototype.sort((a, b) => b.similarity_score - a.similarity_score): stable and
\* descending for a consistent comparator, an implementation-defined order otherwise
sortOutcomes(arr) ==
    IF consistentComparator(arr) THEN { stableSortFrom(arr, 1, <<>>) } ELSE permutationsOf(arr)

DefaultMaxResults == 10

\* this.config.maxResults || 10; an absent maxResults is 0 in the model
effectiveMaxResults(cfg) == IF cfg.maxResults = 0 THEN DefaultMaxResults ELSE cfg.maxResults

\* line 223
limitResults(sorted, cfg) == slice0(sorted, effectiveMaxResults(cfg))

----------------------------------------------------------------------------
(* One duplicate-analysis run: FrontendMCPClient.analyzeForDuplicates on   *)
(* the remote-judge path, i.e. analyzeWithOpenAI (lines 128-232)           *)

\* the proposed issues the runs are started with, each with its enrichment context
RunTemplates ==
    << [title |-> <<"L","o","g","i","n"," ","f","a","i","l","e","d">>, body |-> <<"l","o","g","i","n"," ","e","r","r","o","r"," ","4","0","1">>],
       [title |-> <<"M","e","s","s","e","n","g","e","r"," ","w","i","d","g","e","t"," ","n","o","t"," ","l","o","a","d","i","n","g">>, body |-> <<"c","h","a","t"," ","w","i","d","g","e","t"," ","i","s"," ","b","l","a","n","k">>] >>

RunContexts ==
    << [errorMessages |-> <<"L","o","g","i","n"," ","e","r","r","o","r">>, appId |-> <<"a","p","p","1","2","3">>],
       [errorMessages |-> <<>>, appId |-> <<>>] >>

MaxConfiguredResults == 2

\* maxResults is optional (0: absent); the remote-judge path has useLocalAI = false
RunConfigs ==
    { [useLocalAI |-> FALSE, maxResults |-> m] : m \in {0, MaxConfiguredResults} }

\* the constructor's initializeAI creates the OpenAI client when useLocalAI is false
hasOpenAI(cfg) == ~cfg.useLocalAI

\* no ApiResponse yet
noResponse == [success |-> FALSE, code |-> "none", message |-> "none", data |-> "none"]

fetchIdle ==
    /\ conversationId = <<>>
    /\ fetchPc = "idle"
    /\ fetchCalls = 0
    /\ requests = <<>>
    /\ requestsAtCall = 0
    /\ apiResponse = noResponse

runIdle ==
    /\ pc = "idle"
    /\ searchQueries = <<>>
    /\ qi = 0
    /\ allFoundIssues = <<>>
    /\ uniqueIssues = <<>>
    /\ analyzedIssues = <<>>
    /\ sortedResults = <<>>
    /\ searchesFailed = 0
    /\ searchesOk = 0
    /\ returned = {}
    /\ judgeFailed = {}

\* processConversationData has not been called
normIdle ==
    /\ rawConversation = "none"
    /\ normPc = "idle"
    /\ processed = "none"

\* useFrontendMCP.analyzeForDuplicates has not been called; no local engine
hookIdle ==
    /\ engine = "absent"
    /\ hookPc = "idle"
    /\ analysisResult = "none"
    /\ hookError = "none"

MaxConversations == 2

\* the Index page as mounted: step 'input', nothing selected, nothing cached
pageIdle ==
    /\ currentStep = "input"
    /\ indexConversationId = 0
    /\ mcpAnalysisResult = 0
    /\ conversationCache = {}
    /\ bugDetectionCache = [id \in 1..MaxConversations |-> "none"]
    /\ inFlight = {}
    /\ abandoned = {}
    /\ runsStarted = 0
    /\ createIssueCalls = 0

\* no query or mutation has been started
queryIdle ==
    /\ queryOp = "none"
    /\ queryInput = "none"
    /\ queryPc = "idle"
    /\ failureCount = 0
    /\ invocations = 0
    /\ failures = << >>
    /\ queryRequests = 0
    /\ issuesCreated = 0

\* validateConfiguration has not been called
tokenIdle ==
    /\ tokenConfig = "none"
    /\ tokenPc = "idle"
    /\ userAnswer = "none"
    /\ probeAnswer = "none"
    /\ tokenValidation = "none"
    /\ searchProbes = 0
    /\ configValidation = "none"

\* no single search is under observation
searchIdle ==
    /\ searchResponse = [kind |-> "none"]
    /\ searchResult = "none"

\* everything but the run, the fetch, the normalizer, the hook and the page is at rest
\* no conversation is selected for the query hooks
gateIdle ==
    /\ gateConversation = 0
    /\ gateQueries = [id \in 1..MaxConversations |->
                         [status |-> "pending", failureCount |-> 0, lastAnswer |-> "none"]]
    /\ bugDetectionIssued = {}

\* no issue has been submitted for creation
issueIdle ==
    /\ createIssueStatus = "idle"
    /\ createIssueData = 0
    /\ createdIssue = 0
    /\ enhancedContext = FALSE
    /\ trackerRequests = << >>
    /\ lastSuggestionToast = "none"

keywordIdle ==
    /\ keywordText = << >>
    /\ keywordPc = "idle"
    /\ keywords = << >>

\* initialize has not been called and no client is held
clientIdle ==
    /\ client = [held |-> FALSE, config |-> [githubToken |-> FALSE, useLocalAI |-> FALSE, openaiKey |-> FALSE, repositories |-> 0]]
    /\ loading = FALSE
    /\ initError = [set |-> FALSE, errors |-> << >>]
    /\ initPc = "idle"
    /\ initializeCalls = 0

\* no service function has been called
serviceIdle ==
    /\ serviceOp = "none"
    /\ serviceInput = "none"
    /\ servicePc = "idle"
    /\ serviceResponse = noResponse
    /\ serviceCalls = 0

extraIdle ==
    /\ gateIdle
    /\ issueIdle
    /\ keywordIdle
    /\ clientIdle
    /\ serviceIdle

restIdle ==
    /\ queryIdle
    /\ tokenIdle
    /\ searchIdle
    /\ extraIdle

auxIdle ==
    /\ normIdle
    /\ hookIdle
    /\ pageIdle
    /\ restIdle

Init ==
    /\ \E i \in 1..Len(RunTemplates) :
          /\ template = RunTemplates[i]
          /\ context = RunContexts[i]
    /\ config \in RunConfigs
    /\ tracker \in SUBSET Issues
    /\ runIdle
    /\ fetchIdle
    /\ auxIdle

\* lines 115-122 and 135-138: the remote-judge branch is taken, the queries are generated
\* and the loop of line 140 issues the first search
AnalyzeForDuplicates ==
    /\ pc = "idle"
    /\ ~(config.useLocalAI) /\ hasOpenAI(config)
    /\ searchQueries' = generateSearchQueries(template, context)
    /\ qi' = 1
    /\ allFoundIssues' = <<>>
    /\ pc' = "searching"
    /\ UNCHANGED << template, context, config, tracker, uniqueIssues, analyzedIssues,
                    sortedResults, searchesFailed, searchesOk, returned, judgeFailed >>
    /\ UNCHANGED fetchVars
    /\ UNCHANGED auxVars

\* lines 143-151: the search of the query at hand returns; its issues are appended
SearchReturns ==
    /\ pc = "searching"
    /\ qi <= Len(searchQueries)
    /\ \E response \in SearchResponses(tracker, searchQueries[qi], qi) :
          LET result == searchIssues(response)
          IN  /\ ~result.threw
              /\ allFoundIssues' = allFoundIssues \o result.issues
              /\ returned' = returned \cup Range(response.items)
    /\ searchesOk' = searchesOk + 1
    /\ qi' = qi + 1
    /\ UNCHANGED << template, context, config, tracker, pc, searchQueries, uniqueIssues,
                    analyzedIssues, sortedResults, searchesFailed, judgeFailed >>
    /\ UNCHANGED fetchVars
    /\ UNCHANGED auxVars

\* mutant: a failed search ends the loop
SearchThrowsBreaks ==
    /\ pc = "searching"
    /\ qi <= Len(searchQueries)
    /\ \E response \in SearchResponses(tracker, searchQueries[qi], qi) :
          searchIssues(response).threw
    /\ searchesFailed' = searchesFailed + 1
    /\ qi' = Len(searchQueries) + 1
    /\ UNCHANGED << template, context, config, tracker, pc, searchQueries, allFoundIssues,
                    uniqueIssues, analyzedIssues, sortedResults, searchesOk, returned,
                    judgeFailed >>
    /\ UNCHANGED fetchVars
    /\ UNCHANGED auxVars

\* lines 152-154: the search of the query at hand throws; the error is logged and the loop
\* goes on with the next query
SearchThrows ==
    /\ pc = "searching"
    /\ qi <= Len(searchQueries)
    /\ \E response \in SearchResponses(tracker, searchQueries[qi], qi) :
          searchIssues(response).threw
    /\ searchesFailed' = searchesFailed + 1
    /\ qi' = qi + 1
    /\ UNCHANGED << template, context, config, tracker, pc, searchQueries, allFoundIssues,
                    uniqueIssues, analyzedIssues, sortedResults, searchesOk, returned,
                    judgeFailed >>
    /\ UNCHANGED fetchVars
    /\ UNCHANGED auxVars

\* lines 157-166: after the loop the found issues are deduplicated by id
Deduplicate ==
    /\ pc = "searching"
    /\ qi > Len(searchQueries)
    /\ uniqueIssues' = uniqueById(allFoundIssues)
    /\ analyzedIssues' = <<>>
    /\ pc' = "scoring"
    /\ UNCHANGED << template, context, config, tracker, searchQueries, qi, allFoundIssues,
                    sortedResults, searchesFailed, searchesOk, returned, judgeFailed >>
    /\ UNCHANGED fetchVars
    /\ UNCHANGED auxVars

\* lines 168-218: the next unique issue is scored and classified.  The catch of line 206
\* is entered only when calculateSemanticSimilarity rejects, which it does not: it catches
\* every error of the judge call itself.
ScoreIssue ==
    /\ pc = "scoring"
    /\ Len(analyzedIssues) < Len(uniqueIssues)
    /\ LET issue == uniqueIssues[Len(analyzedIssues) + 1]
       IN  \E judge \in JudgeOutcomes :
              /\ analyzedIssues' =
                    Append(analyzedIssues,
                           analyzedEntry(issue,
                                         calculateSemanticSimilarity(issue, template, context,
                                                                     ~config.useLocalAI,
                                                                     hasOpenAI(config), judge)))
              /\ judgeFailed' = IF judge.kind = "json" THEN judgeFailed
                                ELSE judgeFailed \cup {issue.id}
    /\ UNCHANGED << template, context, config, tracker, pc, searchQueries, qi,
                    allFoundIssues, uniqueIssues, sortedResults, searchesFailed, searchesOk,
                    returned >>
    /\ UNCHANGED fetchVars
    /\ UNCHANGED auxVars

\* lines 220-231: analyzedIssues is sorted in place, cut to the maximum and returned
Rank ==
    /\ pc = "scoring"
    /\ Len(analyzedIssues) = Len(uniqueIssues)
    /\ \E sorted \in sortOutcomes(analyzedIssues) :
          /\ analyzedIssues' = sorted
          /\ sortedResults' = limitResults(sorted, config)
    /\ pc' = "done"
    /\ UNCHANGED << template, context, config, tracker, searchQueries, qi, allFoundIssues,
                    uniqueIssues, searchesFailed, searchesOk, returned, judgeFailed >>
    /\ UNCHANGED fetchVars
    /\ UNCHANGED auxVars

Next ==
    \/ AnalyzeForDuplicates
    \/ SearchReturns
    \/ SearchThrows
    \/ Deduplicate
    \/ ScoreIssue
    \/ Rank

Spec == Init /\ [][Next]_vars

----------------------------------------------------------------------------
(* The query generator on its own, over a wider set of inputs              *)

QueryTitles == { <<"M","e","s","s","e","n","g","e","r"," ","n","o","t"," ","l","o","a","d","i","n","g">>, <<"L","o","g","i","n"," ","f","a","i","l","e","d"," ","4","0","1">>, <<"A","P","I"," ","s","e","r","v","e","r"," ","e","r","r","o","r">>,
                 <<"S","l","o","w"," ","p","a","g","e">> }

QueryBodies == { <<>>, <<"t","h","e"," ","W","i","d","g","e","t"," ","i","s"," ","b","l","a","n","k">>, <<"c","h","a","t"," ","p","o","p","u","p"," ","s","h","o","w","s"," ","i","n","t","e","r","n","a","l"," ","e","r","r","o","r",","," ","l","o","g","i","n">> }

QueryErrorMessages == { <<>>, <<"F","a","i","l","e","d">>, <<"E","r","r","o","r",":"," ","t","i","m","e","o","u","t">>,
                        <<"R","e","q","u","e","s","t"," ","f","a","i","l","e","d",":"," ","4","0","4"," ","N","o","t"," ","F","o","u","n","d",","," ","c","o","n","n","e","c","t","i","o","n"," ","r","e","f","u","s","e","d">> }

LongAppId == [i \in 1..MaxQueryLength |-> "x"]

QueryAppIds == { <<>>, <<"a","p","p","1","2","3">>, <<" ","e","r","r","o","r"," ">>, <<"a","b">>, <<" "," "," ">>, LongAppId }

InitQueries ==
    /\ template \in [title : QueryTitles, body : QueryBodies]
    /\ context \in [errorMessages : QueryErrorMessages, appId : QueryAppIds]
    /\ config = [useLocalAI |-> FALSE, maxResults |-> 0]
    /\ tracker = {}
    /\ runIdle
    /\ fetchIdle
    /\ auxIdle

\* one call of generateSearchQueries
GenerateSearchQueries ==
    /\ pc = "idle"
    /\ searchQueries' = generateSearchQueries(template, context)
    /\ pc' = "generated"
    /\ UNCHANGED << template, context, config, tracker, qi, allFoundIssues, uniqueIssues,
                    analyzedIssues, sortedResults, searchesFailed, searchesOk, returned,
                    judgeFailed >>
    /\ UNCHANGED fetchVars
    /\ UNCHANGED auxVars

NextQueries == GenerateSearchQueries

SpecQueries == InitQueries /\ [][NextQueries]_vars

----------------------------------------------------------------------------
(* fetchConversation (services/intercomApi.ts)                             *)

\* mutant: the regular expression without its anchors, /\d+/
validateConversationIdUnanchored(id) ==
    \E i \in 1..Len(trim(id)) : trim(id)[i] \in Digits

\* validateConversationId, lines 222-224: /^\d+$/.test(id.trim())
validateConversationId(id) ==
    LET t == trim(id)
    IN  Len(t) > 0 /\ \A i \in 1..Len(t) : t[i] \in Digits

\* the ids fetchConversation is called with
ConversationIds ==
    { <<"1","2","3","4","5">>, <<"0","0","7">>, <<" ","1","2","3"," ">>, <<"4", "2", "\n">>, <<"a","b","c">>, <<"1","2","a">>, <<"1"," ","2">>, <<"-","5">>,
      <<"1",".","5">>, <<" "," "," ">>, <<>> }

\* what the GET of line 243 may end in, after the response interceptor of lines 190-216:
\* a 2xx response with a payload, or a rejection whose Error message names the cause
ConversationAnswers ==
    { [kind |-> "ok", payload |-> p] : p \in {"usable", "no_source"} }
    \cup { [kind |-> "rejected", payload |-> m] :
             m \in {"invalid_token", "not_found", "rate_limit", "timeout", "network",
                    "unexpected"} }

\* mutant: a payload without source is processed like any other
processConversationDataLenient(payload) ==
    [threw |-> FALSE, data |-> "conversation"]

\* processConversationData, lines 272-379, as far as fetchConversation depends on it: it
\* reads rawConversation.source.body (line 297) and so throws a TypeError on a payload
\* without source; otherwise it returns the processed conversation
processConversationData(payload) ==
    IF payload = "no_source"
    THEN [threw |-> TRUE, data |-> "none"]
    ELSE [threw |-> FALSE, data |-> "conversation"]

MaxFetchCalls == 2

InitFetch ==
    /\ template = [title |-> <<>>, body |-> <<>>]
    /\ context = [errorMessages |-> <<>>, appId |-> <<>>]
    /\ config = [useLocalAI |-> FALSE, maxResults |-> 0]
    /\ tracker = {}
    /\ runIdle
    /\ fetchIdle
    /\ auxIdle

\* lines 229-245: the id is validated; an invalid id resolves at once with INVALID_ID, a
\* valid one issues GET /conversations/<trimmed id>
FetchConversation ==
    /\ fetchPc \in {"idle", "resolved"}
    /\ fetchCalls < MaxFetchCalls
    /\ \E id \in ConversationIds :
          /\ conversationId' = id
          /\ IF ~validateConversationId(id)
             THEN /\ apiResponse' = [success |-> FALSE, code |-> "INVALID_ID",
                                     message |-> "Conversation ID must be a numeric value",
                                     data |-> "none"]
                  /\ fetchPc' = "resolved"
                  /\ requests' = requests
             ELSE /\ apiResponse' = noResponse
                  /\ fetchPc' = "awaiting"
                  /\ requests' = Append(requests, trim(id))
    /\ fetchCalls' = fetchCalls + 1
    /\ requestsAtCall' = Len(requests)
    /\ UNCHANGED runVars
    /\ UNCHANGED auxVars

\* lines 247-254: the request succeeded and the payload was processed
FetchSucceeds ==
    /\ fetchPc = "awaiting"
    /\ \E answer \in ConversationAnswers :
          /\ answer.kind = "ok"
          /\ ~processConversationData(answer.payload).threw
          /\ apiResponse' = [success |-> TRUE, code |-> "none", message |-> "none",
                             data |-> processConversationData(answer.payload).data]
    /\ fetchPc' = "resolved"
    /\ UNCHANGED << conversationId, fetchCalls, requests, requestsAtCall >>
    /\ UNCHANGED runVars
    /\ UNCHANGED auxVars

\* lines 255-266: the request was rejected or processing the payload threw
FetchFails ==
    /\ fetchPc = "awaiting"
    /\ \E answer \in ConversationAnswers :
          /\ \/ answer.kind = "rejected"
             \/ answer.kind = "ok" /\ processConversationData(answer.payload).threw
          /\ apiResponse' = [success |-> FALSE, code |-> "FETCH_ERROR",
                             message |-> IF answer.kind = "rejected" THEN answer.payload
                                         ELSE "type_error",
                             data |-> "none"]
    /\ fetchPc' = "resolved"
    /\ UNCHANGED << conversationId, fetchCalls, requests, requestsAtCall >>
    /\ UNCHANGED runVars
    /\ UNCHANGED auxVars

NextFetch ==
    \/ FetchConversation
    \/ FetchSucceeds
    \/ FetchFails

SpecFetch == InitFetch /\ [][NextFetch]_vars


\* ---------------------------------------------------------------------------------------
\* The queries and the mutation of src/src/hooks/conversation.ts under their retry options
\* ---------------------------------------------------------------------------------------

\* useConversation, line 37: retry: 2
RetryConversation == 2

\* useBugDetection, line 66: retry: 3
RetryBugDetection == 3

\* useCreateGitHubIssue, line 88: retry: 2
RetryCreateIssue == 2

QueryOps == {"conversation", "bugDetection", "createIssue"}

\* the retry option of each hook; a number, so the retryer asks only failureCount < retry
\* and never looks at the error
retryOf(op) ==
    CASE op = "conversation" -> RetryConversation
      [] op = "bugDetection" -> RetryBugDetection
      [] OTHER -> RetryCreateIssue

\* what each hook may be called with: useConversation is enabled for every non-empty id
\* (line 34), createGitHubIssue reads owner and repo from the environment (lines 114-115),
\* useBugDetection gets a processed conversation
QueryInputs(op) ==
    CASE op = "conversation" -> { [id |-> i] : i \in ConversationIds \ { << >> } }
      [] op = "bugDetection" -> { [conversation |-> "c1"] }
      [] OTHER -> { [ownerAndRepo |-> b] : b \in BOOLEAN }

\* fetchConversation lines 231-239 and createGitHubIssue lines 117-125: the input is
\* refused before any request (INVALID_ID, MISSING_CONFIG)
failsValidation(op, input) ==
    CASE op = "conversation" -> ~validateConversationId(input.id)
      [] op = "createIssue" -> ~input.ownerAndRepo
      [] OTHER -> FALSE

\* the classes of failure a request of each operation may end in: what the response
\* interceptors throw (part_001 lines 191-215, githubApi.ts lines 31-53 and 228-242) and
\* what the functions catch themselves (FETCH_ERROR, PARSE_ERROR, CREATE_ERROR)
RequestFailures(op) ==
    CASE op = "conversation" -> {"auth", "not_found", "rate_limit", "timeout", "network"}
      [] op = "bugDetection" -> {"auth", "rate_limit", "timeout", "parse"}
      [] OTHER -> {"auth", "forbidden", "not_found", "unprocessable", "timeout"}

\* githubApi.ts lines 9 and 50-52: the client gives up after its timeout (ECONNABORTED)
\* whether or not the POST of line 130 has reached the tracker; every other failure is the
\* tracker's refusal of the request
requestMayBeProcessed(op, failure) ==
    IF op = "createIssue" /\ failure = "timeout" THEN BOOLEAN ELSE {FALSE}

InitRetry ==
    /\ template = [title |-> <<>>, body |-> <<>>]
    /\ context = [errorMessages |-> <<>>, appId |-> <<>>]
    /\ config = [useLocalAI |-> FALSE, maxResults |-> 0]
    /\ tracker = {}
    /\ runIdle
    /\ fetchIdle
    /\ auxIdle

notQueryVars == << runVars, fetchVars, normVars, hookVars, pageVars, tokenVars, searchVars, extraVars >>

\* the hook is mounted with an input (or mutateAsync is called) and the retryer starts
StartQuery ==
    /\ queryPc = "idle"
    /\ \E op \in QueryOps :
        \E input \in QueryInputs(op) :
            /\ queryOp' = op
            /\ queryInput' = input
    /\ queryPc' = "running"
    /\ UNCHANGED << failureCount, invocations, failures, queryRequests, issuesCreated,
                    notQueryVars >>

\* queryFn lines 23-33, 50-62, 80-87: the service answers success with data
AttemptSucceeds ==
    /\ queryPc = "running"
    /\ ~failsValidation(queryOp, queryInput)
    /\ invocations' = invocations + 1
    /\ queryRequests' = queryRequests + 1
    /\ issuesCreated' = IF queryOp = "createIssue" THEN issuesCreated + 1 ELSE issuesCreated
    /\ queryPc' = "success"
    /\ UNCHANGED << queryOp, queryInput, failureCount, failures, notQueryVars >>

\* queryFn lines 28-30, 57-59, 83-85: the service answers success: false, whatever the
\* code, and the function throws a plain Error; the retryer retries while
\* failureCount < retry (lines 37, 66, 88)
AttemptFails ==
    /\ queryPc = "running"
    /\ invocations' = invocations + 1
    /\ IF failsValidation(queryOp, queryInput)
       THEN /\ failures' = Append(failures, "input_validation")
            /\ queryRequests' = queryRequests
            /\ issuesCreated' = issuesCreated
       ELSE /\ \E c \in RequestFailures(queryOp) :
                /\ failures' = Append(failures, c)
                /\ \E reached \in requestMayBeProcessed(queryOp, c) :
                     issuesCreated' = IF reached THEN issuesCreated + 1 ELSE issuesCreated
            /\ queryRequests' = queryRequests + 1
    /\ IF failureCount < retryOf(queryOp)
       THEN /\ failureCount' = failureCount + 1
            /\ queryPc' = "waitingRetry"
       ELSE /\ failureCount' = failureCount
            /\ queryPc' = "error"
    /\ UNCHANGED << queryOp, queryInput, notQueryVars >>

\* retryDelay (lines 38, 67, 89) has passed: the function is invoked again
RetryFires ==
    /\ queryPc = "waitingRetry"
    /\ queryPc' = "running"
    /\ UNCHANGED << queryOp, queryInput, failureCount, invocations, failures, queryRequests,
                    issuesCreated, notQueryVars >>

NextRetry ==
    \/ StartQuery
    \/ AttemptSucceeds
    \/ AttemptFails
    \/ RetryFires

SpecRetry == InitRetry /\ [][NextRetry]_vars

\* ---------------------------------------------------------------------------------------
\* useConversation and useBugDetection (src/src/hooks/conversation.ts lines 20-71) as the
\* page mounts them (src/src/pages/Index.tsx lines 39-40), over fetchConversation
\* ---------------------------------------------------------------------------------------

\* fetchConversation, part_001 lines 229-267, for a valid id, on what the GET ends in
fetchConversationResult(answer) ==
    IF answer.kind = "ok" /\ ~processConversationData(answer.payload).threw
    THEN [success |-> TRUE, code |-> "none", message |-> "none",
          data |-> processConversationData(answer.payload).data]
    ELSE [success |-> FALSE, code |-> "FETCH_ERROR",
          message |-> IF answer.kind = "rejected" THEN answer.payload ELSE "type_error",
          data |-> "none"]

\* conversationQuery.data of the selected conversation (Index.tsx line 39)
conversationQueryData ==
    IF gateConversation # 0 /\ gateQueries[gateConversation].status = "success"
    THEN "conversation"
    ELSE "none"

InitGate ==
    /\ template = [title |-> <<>>, body |-> <<>>]
    /\ context = [errorMessages |-> <<>>, appId |-> <<>>]
    /\ config = [useLocalAI |-> FALSE, maxResults |-> 0]
    /\ tracker = {}
    /\ runIdle
    /\ fetchIdle
    /\ auxIdle

notGateVars == << runVars, fetchVars, normVars, hookVars, pageVars, queryVars, tokenVars,
                 searchVars, issueVars, keywordVars, clientVars, serviceVars >>

\* setConversationId (Index.tsx line 92): the hooks are mounted with another conversation
SelectConversation ==
    /\ \E id \in 1..MaxConversations :
        /\ id # gateConversation
        /\ gateConversation' = id
    /\ UNCHANGED << gateQueries, bugDetectionIssued, notGateVars >>

\* useConversation's queryFn (lines 23-33) runs for the selected conversation: it resolves
\* with response.data, or throws and is retried while failureCount < retry (line 37)
ConversationQueryFn ==
    /\ gateConversation # 0
    /\ gateQueries[gateConversation].status = "pending"
    /\ \E answer \in ConversationAnswers :
        LET response == fetchConversationResult(answer)
            q == gateQueries[gateConversation]
        IN  gateQueries' =
                [gateQueries EXCEPT ![gateConversation] =
                    IF response.success /\ response.data # "none"
                    THEN [status |-> "success", failureCount |-> 0,
                          lastAnswer |-> answer.payload]
                    ELSE IF q.failureCount < RetryConversation
                         THEN [status |-> "pending", failureCount |-> q.failureCount + 1,
                               lastAnswer |-> answer.payload]
                         ELSE [status |-> "error", failureCount |-> q.failureCount,
                               lastAnswer |-> answer.payload]]
    /\ UNCHANGED << gateConversation, bugDetectionIssued, notGateVars >>

\* useBugDetection (lines 47-71) is enabled by conversation?.id (line 63); its queryFn
\* calls detectBugFromConversation for the conversation it was handed
BugDetectionQueryFn ==
    /\ conversationQueryData # "none"
    /\ gateConversation \notin bugDetectionIssued
    /\ bugDetectionIssued' = bugDetectionIssued \cup {gateConversation}
    /\ UNCHANGED << gateConversation, gateQueries, notGateVars >>

NextGate ==
    \/ SelectConversation
    \/ ConversationQueryFn
    \/ BugDetectionQueryFn

SpecGate == InitGate /\ [][NextGate]_vars
----------------------------------------------------------------------------
(* useFrontendMCP.analyzeForDuplicates (hooks/useFrontendMCP.ts) over both *)
(* engines: analyzeWithOpenAI and WebLLMService.analyzeWithTools           *)

\* the configurations a client is built with
EngineConfigs ==
    { [useLocalAI |-> u, maxResults |-> m] : u \in BOOLEAN, m \in {0, MaxConfiguredResults} }

\* an entry of the local model's answer carries no issue
NoIssue == [id |-> 0, fromQuery |-> 0]

\* the entry the prompt of webLLMService.ts:39-49 asks the model for
localEntry(score) ==
    [ issue |-> NoIssue,
      similarity_score |-> score,
      relationship_type |-> "duplicate",
      reasoning |-> "explanation",
      suggested_action |-> "reference" ]

\* what the completion of webLLMService.ts:51 may carry as its content
LocalContents ==
    { [kind |-> "unparsable", analyzed_issues |-> <<>>],
      [kind |-> "empty_object", analyzed_issues |-> <<>>],
      [kind |-> "json", analyzed_issues |-> << localEntry(<<8, 10>>) >>],
      [kind |-> "json", analyzed_issues |-> << localEntry(<<3, 10>>), localEntry(<<8, 10>>) >>] }

\* webLLMService.ts:57-64: the parsed analyzed_issues, [] when there is none or parsing throws
parseLocalContent(content) ==
    IF content.kind = "json" THEN content.analyzed_issues ELSE <<>>

\* useFrontendMCP.ts:104-109
analysisResultOf(analyzedIssuesReturned, cfg) ==
    [ analyzed_issues |-> analyzedIssuesReturned,
      total_searched |-> Len(analyzedIssuesReturned),
      ai_model_used |-> IF cfg.useLocalAI THEN "WebLLM (Local)" ELSE "OpenAI GPT-4" ]

\* the runs start from the second proposed issue, which three tracker issues match
InitEngines ==
    /\ template = RunTemplates[Len(RunTemplates)]
    /\ context = RunContexts[Len(RunContexts)]
    /\ config \in EngineConfigs
    /\ tracker \in SUBSET Issues
    /\ runIdle
    /\ fetchIdle
    /\ normIdle
    /\ pageIdle
    /\ restIdle
    \* the constructor's initializeAI has started loading the local engine (lines 21-25)
    /\ engine = IF config.useLocalAI THEN "loading" ELSE "absent"
    /\ hookPc = "idle"
    /\ analysisResult = "none"
    /\ hookError = "none"

\* webLLMService.ts:12-18: CreateMLCEngine resolves
EngineLoads ==
    /\ engine = "loading"
    /\ engine' = "ready"
    /\ UNCHANGED << hookPc, analysisResult, hookError >>
    /\ UNCHANGED << runVars, fetchVars, normVars, pageVars, queryVars, tokenVars, searchVars, extraVars >>

\* webLLMService.ts:19-22: CreateMLCEngine rejects; the engine stays null
EngineLoadFails ==
    /\ engine = "loading"
    /\ engine' = "failed"
    /\ UNCHANGED << hookPc, analysisResult, hookError >>
    /\ UNCHANGED << runVars, fetchVars, normVars, pageVars, queryVars, tokenVars, searchVars, extraVars >>

\* useFrontendMCP.ts:87-101 and frontendMCP.ts:78-126: the hook calls the client, which
\* dispatches on the engine.  Local: analyzeWithTools throws when the engine is not loaded
\* (webLLMService.ts:30-32), else issues its one completion call.  Remote: analyzeWithOpenAI
\* generates the queries and issues the first search.  The branch of line 124 needs both
\* engines to be missing, which the constructor excludes.
HookAnalyzeForDuplicates ==
    /\ hookPc = "idle"
    /\ pc = "idle"
    /\ IF config.useLocalAI
       THEN IF engine # "ready"
            THEN /\ pc' = "failed"
                 /\ hookPc' = "rejected"
                 /\ hookError' = "WebLLM not initialized"
                 /\ UNCHANGED << searchQueries, qi >>
            ELSE /\ pc' = "completing"
                 /\ hookPc' = "awaiting"
                 /\ hookError' = "none"
                 /\ UNCHANGED << searchQueries, qi >>
       ELSE /\ hasOpenAI(config)
            /\ searchQueries' = generateSearchQueries(template, context)
            /\ qi' = 1
            /\ pc' = "searching"
            /\ hookPc' = "awaiting"
            /\ hookError' = "none"
    /\ allFoundIssues' = <<>>
    /\ UNCHANGED << template, context, config, tracker, uniqueIssues, analyzedIssues,
                    sortedResults, searchesFailed, searchesOk, returned, judgeFailed >>
    /\ UNCHANGED << engine, analysisResult >>
    /\ UNCHANGED << fetchVars, normVars, pageVars, queryVars, tokenVars, searchVars, extraVars >>

\* webLLMService.ts:51-64: the completion resolves; analyzeWithTools returns what it parsed
LocalCompletionReturns ==
    /\ pc = "completing"
    /\ \E content \in LocalContents : sortedResults' = parseLocalContent(content)
    /\ pc' = "done"
    /\ UNCHANGED << template, context, config, tracker, searchQueries, qi, allFoundIssues,
                    uniqueIssues, analyzedIssues, searchesFailed, searchesOk, returned,
                    judgeFailed >>
    /\ UNCHANGED << fetchVars, normVars, hookVars, pageVars, queryVars, tokenVars, searchVars, extraVars >>

\* webLLMService.ts:51: the completion rejects outside every try; analyzeWithTools, the
\* client and the hook (useFrontendMCP.ts:110-113) reject with it
LocalCompletionThrows ==
    /\ pc = "completing"
    /\ pc' = "failed"
    /\ hookPc' = "rejected"
    /\ hookError' = "completion failed"
    /\ UNCHANGED runVarsButPc
    /\ UNCHANGED << engine, analysisResult >>
    /\ UNCHANGED << fetchVars, normVars, pageVars, queryVars, tokenVars, searchVars, extraVars >>

\* useFrontendMCP.ts:101-109: the client's promise resolved; the hook builds its result
HookResolves ==
    /\ hookPc = "awaiting"
    /\ pc = "done"
    /\ analysisResult' = analysisResultOf(sortedResults, config)
    /\ hookPc' = "resolved"
    /\ UNCHANGED << engine, hookError >>
    /\ UNCHANGED << runVars, fetchVars, normVars, pageVars, queryVars, tokenVars, searchVars, extraVars >>

NextEngines ==
    \/ EngineLoads
    \/ EngineLoadFails
    \/ HookAnalyzeForDuplicates
    \/ SearchReturns
    \/ SearchThrows
    \/ Deduplicate
    \/ ScoreIssue
    \/ Rank
    \/ LocalCompletionReturns
    \/ LocalCompletionThrows
    \/ HookResolves

SpecEngines == InitEngines /\ [][NextEngines]_vars


\* ---------------------------------------------------------------------------------------
\* extractKeywords (src/unnamed/part_007 lines 54-69)
\* ---------------------------------------------------------------------------------------

\* lines 55-61
commonWords ==
    { <<"t","h","e">>, <<"a">>, <<"a","n">>, <<"a","n","d">>, <<"o","r">>, <<"b","u","t">>, <<"i","n">>, <<"o","n">>, <<"a","t">>, <<"t","o">>,
      <<"f","o","r">>, <<"o","f">>, <<"w","i","t","h">>, <<"b","y">>, <<"i","s">>, <<"a","r","e">>, <<"w","a","s">>, <<"w","e","r","e">>, <<"b","e">>,
      <<"b","e","e","n">>, <<"h","a","v","e">>, <<"h","a","s">>, <<"h","a","d">>, <<"d","o">>, <<"d","o","e","s">>, <<"d","i","d">>, <<"w","i","l","l">>,
      <<"w","o","u","l","d">>, <<"c","o","u","l","d">>, <<"s","h","o","u","l","d">>, <<"m","a","y">>, <<"m","i","g","h","t">>, <<"c","a","n">>, <<"c","a","n","n","o","t">>,
      <<"t","h","i","s">>, <<"t","h","a","t">>, <<"t","h","e","s","e">>, <<"t","h","o","s","e">>, <<"i">>, <<"y","o","u">>, <<"h","e">>, <<"s","h","e">>, <<"i","t">>,
      <<"w","e">>, <<"t","h","e","y">>, <<"m","y">>, <<"y","o","u","r">>, <<"h","i","s">>, <<"h","e","r">>, <<"i","t","s">>, <<"o","u","r">>, <<"t","h","e","i","r">> }

\* line 68: slice(0, 20)
KeywordLimit == 20

\* the elements of arr at the indices in keep, in order (filter, or a replace by '')
keptAt(arr, keep) ==
    LET K == keep \cap (1..Len(arr))
    IN  [j \in 1..Cardinality(K) |->
            arr[CHOOSE i \in K : Cardinality({x \in K : x <= i}) = j]]

\* line 66: split(/\s+/), by positions: the maximal runs without whitespace, with the empty
\* piece before a leading and after a trailing run of whitespace
splitAtWhitespace(s) ==
    LET n == Len(s)
        starts == {i \in 1..n : s[i] \notin WhiteSpace /\ (i = 1 \/ s[i - 1] \in WhiteSpace)}
        endOf(i) == CHOOSE j \in i..n :
                        /\ \A k \in i..j : s[k] \notin WhiteSpace
                        /\ (j = n \/ s[j + 1] \in WhiteSpace)
        pieces == [j \in 1..Cardinality(starts) |->
                      LET i == CHOOSE x \in starts : Cardinality({y \in starts : y <= x}) = j
                      IN  SubSeq(s, i, endOf(i))]
        leading == IF n = 0 \/ s[1] \in WhiteSpace THEN << << >> >> ELSE << >>
        trailing == IF n > 0 /\ s[n] \in WhiteSpace THEN << << >> >> ELSE << >>
    IN  leading \o pieces \o trailing

\* line 65: replace(/[^\w\s]/g, '')
removePunctuation(s) ==
    keptAt(s, {i \in 1..Len(s) : s[i] \in WordChars \/ s[i] \in WhiteSpace})

\* line 67 without the length test
keepsWordOfAnyLength(word) == word \notin commonWords

\* line 67: word.length > 2 && !commonWords.has(word)
keepsWord(word) == Len(word) > 2 /\ word \notin commonWords

\* lines 63-68
extractKeywords(text) ==
    LET words == splitAtWhitespace(removePunctuation(toLowerCase(text)))
    IN  slice0(keptAt(words, {i \in 1..Len(words) : keepsWord(words[i])}), KeywordLimit)

\* Array.prototype.join(' ')
RECURSIVE joinWords(_)
joinWords(arr) ==
    IF Len(arr) = 0 THEN << >>
    ELSE IF Len(arr) = 1 THEN arr[1]
         ELSE arr[1] \o << " " >> \o joinWords(Tail(arr))

\* the words the texts are made of: stop words in either case, short words, words with
\* punctuation inside and around them, digits and underscores
KeywordVocabulary ==
    << <<"T","h","e">>, <<"L","o","g","i","n">>, <<"e","r","r","-","o","r","!">>, <<"i","s">>, <<"a","b">>, <<"a","_","1">>, <<"t","h","-","e">>, <<"(","w","i","d","g","e","t",")",",">> >>

\* what stands between two words
KeywordSeparators == { << " " >>, << " ", "\n" >>, << ".", " " >> }

MaxWords == 2

RECURSIVE textsOfWords(_)
textsOfWords(n) ==
    IF n = 0 THEN { << >> }
    ELSE UNION { { t \o sep \o KeywordVocabulary[w] :
                     sep \in KeywordSeparators, w \in DOMAIN KeywordVocabulary } :
                 t \in textsOfWords(n - 1) }

\* n different words, each with a capital and punctuation in it
RECURSIVE manyWords(_)
manyWords(n) ==
    IF n = 0 THEN << >>
    ELSE manyWords(n - 1) \o << " ", "A", "-", LowerCaseLetters[n], "c" >>

\* short texts of every shape, and long ones around the limit
KeywordTexts ==
    UNION { textsOfWords(n) : n \in 0..MaxWords }
    \cup { manyWords(n) : n \in {KeywordLimit - 1, KeywordLimit, KeywordLimit + 1,
                                KeywordLimit + 3} }

InitKeywords ==
    /\ template = [title |-> <<>>, body |-> <<>>]
    /\ context = [errorMessages |-> <<>>, appId |-> <<>>]
    /\ config = [useLocalAI |-> FALSE, maxResults |-> 0]
    /\ tracker = {}
    /\ runIdle
    /\ fetchIdle
    /\ normIdle
    /\ hookIdle
    /\ pageIdle
    /\ queryIdle
    /\ tokenIdle
    /\ searchIdle
    /\ gateIdle
    /\ issueIdle
    /\ clientIdle
    /\ serviceIdle
    /\ keywordText \in KeywordTexts
    /\ keywordPc = "idle"
    /\ keywords = << >>

\* one call of extractKeywords
ExtractKeywords ==
    /\ keywordPc = "idle"
    /\ keywords' = extractKeywords(keywordText)
    /\ keywordPc' = "returned"
    /\ UNCHANGED << keywordText, runVars, fetchVars, normVars, hookVars, pageVars, queryVars,
                    tokenVars, searchVars, gateVars, issueVars, clientVars, serviceVars >>

NextKeywords == ExtractKeywords

SpecKeywords == InitKeywords /\ [][NextKeywords]_vars
----------------------------------------------------------------------------
(* processConversationData (services/intercomApi.ts), the normalizer       *)

\* authors of the raw payload: [type, name, email]
Alice == [type |-> "user", name |-> "Alice", email |-> "alice@example.com"]

Bob == [type |-> "user", name |-> "Bob", email |-> "bob@example.com"]

Agent == [type |-> "admin", name |-> "Agent", email |-> "agent@example.com"]

\* rawConversation.contacts: none listed, or one contact
ContactLists ==
    { <<>>,
      << [name |-> "Bob", email |-> "bob@example.com"] >>,
      << [name |-> "Alice", email |-> "alice@example.com"] >> }

\* rawConversation.source; an empty body is the empty string
Sources == { [author |-> a, body |-> b] : a \in {Alice, Agent}, b \in {"", "It is broken"} }

\* the conversation parts a payload may list, each with its created_at (epoch seconds)
PartChoices ==
    { [author |-> Alice, body |-> "Still broken",  part_type |-> "comment", created_at |-> 20],
      [author |-> Bob,   body |-> "Same here",     part_type |-> "comment", created_at |-> 15],
      [author |-> Agent, body |-> "Looking at it", part_type |-> "comment", created_at |-> 30],
      [author |-> Alice, body |-> "",              part_type |-> "comment", created_at |-> 20],
      [author |-> Agent, body |-> "Side remark",   part_type |-> "note",    created_at |-> 20],
      [author |-> Agent, body |-> "Imported",      part_type |-> "comment", created_at |-> 5] }

MaxParts == 2

PartLists == UNION { [1..n -> PartChoices] : n \in 0..MaxParts }

\* a present or absent numeric custom attribute
NoRating == [present |-> FALSE, value |-> 0]

Ratings == { NoRating } \cup { [present |-> TRUE, value |-> v] : v \in 0..3 }

\* rawConversation.tags.tags mapped to their names
TagLists ==
    { <<>>, << <<"b","i","l","l","i","n","g">> >>, << <<"U","R","G","E","N","T"," ","f","i","x">> >>, << <<"b","i","l","l","i","n","g">>, <<"C","r","i","t","i","c","a","l">> >>,
      << <<"L","o","w"," ","p","r","i","o","r","i","t","y">> >>, << <<"s","l","o","w">>, <<"u","r","g","e","n","t">> >> }

\* custom_attributes['Query Type'] and custom_attributes['Brand']; <<>> is absent
QueryTypes == { <<>>, <<"F","o","l","l","o","w","-","u","p">>, <<"U","r","g","e","n","t"," ","r","e","q","u","e","s","t">> }

Brands == { <<>>, <<"A","c","m","e">> }

\* the part of a payload the thread-related fields are read from, with the rest at rest
threadPayload(contacts, source, parts) ==
    [ contacts |-> contacts, source |-> source, parts |-> parts, created_at |-> 10,
      state |-> "open", priority |-> "none", rating |-> NoRating, tags |-> <<>>,
      queryType |-> <<>>, aiSummary |-> FALSE, brand |-> <<>> ]

\* the part of a payload the priority is read from, with a fixed thread
taggedPayload(priority, rating, tags, queryType, aiSummary, brand, state) ==
    [ contacts |-> <<>>, source |-> [author |-> Alice, body |-> "It is broken"],
      parts |-> <<>>, created_at |-> 10,
      state |-> state, priority |-> priority, rating |-> rating, tags |-> tags,
      queryType |-> queryType, aiSummary |-> aiSummary, brand |-> brand ]

\* the payloads processConversationData is called with (IntercomConversation)
RawConversations ==
    { threadPayload(c, s, p) : c \in ContactLists, s \in Sources, p \in PartLists }
    \cup { taggedPayload(pr, r, t, q, a, b, st) :
             pr \in {"none", "priority", "not_priority"}, r \in Ratings, t \in TagLists,
             q \in QueryTypes, a \in BOOLEAN, b \in Brands, st \in {"open", "closed"} }

\* the index of the first conversation part written by a user and with a body; 0 if none
customerMessageIndex(raw) ==
    LET hits == {i \in 1..Len(raw.parts) :
                    raw.parts[i].author.type = "user" /\ raw.parts[i].body # ""}
    IN  IF hits = {} THEN 0 ELSE CHOOSE i \in hits : \A j \in hits : i <= j

\* lines 274-291: the customer is the author of that part, else the first contact, else the
\* author of the source
resolveCustomer(raw) ==
    LET k == customerMessageIndex(raw)
    IN  IF k > 0
        THEN [name |-> raw.parts[k].author.name, email |-> raw.parts[k].author.email]
        ELSE IF Len(raw.contacts) > 0
             THEN raw.contacts[1]
             ELSE [name |-> raw.source.author.name, email |-> raw.source.author.email]

\* the author type of a normalized message
messageAuthorType(type) ==
    IF type = "admin" THEN "admin" ELSE IF type = "bot" THEN "bot" ELSE "customer"

\* new Date(seconds * 1000): the time in milliseconds; toISOString keeps its order
toMillis(seconds) == seconds * 1000

\* lines 297-309: the initial message, if the source has a body
sourceMessages(raw) ==
    IF raw.source.body # ""
    THEN << [ id |-> "source",
              author |-> [ name |-> IF raw.source.author.name # ""
                                    THEN raw.source.author.name ELSE "Unknown",
                           email |-> raw.source.author.email,
                           type |-> messageAuthorType(raw.source.author.type) ],
              body |-> raw.source.body,
              createdAt |-> toMillis(raw.created_at) ] >>
    ELSE <<>>

\* lines 312-333: the parts with a body that are comments, in the order listed
meaningfulParts(raw) ==
    LET keep == {i \in 1..Len(raw.parts) :
                    raw.parts[i].body # "" /\ raw.parts[i].part_type = "comment"}
        msgs == [i \in 1..Len(raw.parts) |->
                    [ id |-> "part",
                      author |-> [ name |-> IF raw.parts[i].author.name # ""
                                            THEN raw.parts[i].author.name ELSE "Unknown",
                                   email |-> raw.parts[i].author.email,
                                   type |-> messageAuthorType(raw.parts[i].author.type) ],
                      body |-> raw.parts[i].body,
                      createdAt |-> toMillis(raw.parts[i].created_at) ]]
    IN  filterIdx(msgs, keep, 1)

\* lines 336-352: the native tags, then the tags synthesized from custom attributes
allTagsOf(raw) ==
    raw.tags
    \o (IF raw.queryType # <<>> THEN << <<"Q","u","e","r","y",":"," ">> \o raw.queryType >> ELSE <<>>)
    \o (IF raw.aiSummary THEN << <<"A","I"," ","S","u","m","m","a","r","y"," ","A","v","a","i","l","a","b","l","e">> >> ELSE <<>>)
    \o (IF raw.brand # <<>> THEN << <<"B","r","a","n","d",":"," ">> \o raw.brand >> ELSE <<>>)

\* whether some tag holds the word, compared in lower case
someTagIncludes(tags, word) ==
    \E i \in 1..Len(tags) : includes(toLowerCase(tags[i]), word)

LowRatingThreshold == 2

\* lines 355-364; a rating of 0 is falsy and so fails the first half of the && of line 358
inferPriority(raw) ==
    IF raw.priority = "priority" THEN "high"
    ELSE IF raw.rating.present /\ raw.rating.value # 0 /\ raw.rating.value <= LowRatingThreshold
         THEN "high"
         ELSE IF \/ someTagIncludes(allTagsOf(raw), <<"u","r","g","e","n","t">>)
                 \/ someTagIncludes(allTagsOf(raw), <<"c","r","i","t","i","c","a","l">>)
              THEN "high"
              ELSE IF someTagIncludes(allTagsOf(raw), <<"l","o","w">>) THEN "low"
                   ELSE "medium"

\* lines 366-378: the ProcessedConversation returned
processedConversation(raw) ==
    LET customer == resolveCustomer(raw)
    IN  [ customerName |-> IF customer.name # "" THEN customer.name ELSE "Unknown Customer",
          customerEmail |-> customer.email,
          createdAt |-> toMillis(raw.created_at),
          status |-> IF raw.state = "closed" THEN "closed" ELSE "open",
          messages |-> sourceMessages(raw) \o meaningfulParts(raw),
          tags |-> allTagsOf(raw),
          priority |-> inferPriority(raw) ]

notNormVars == << runVars, fetchVars, hookVars, pageVars, queryVars, tokenVars, searchVars, extraVars >>

InitNormalize ==
    /\ template = [title |-> <<>>, body |-> <<>>]
    /\ context = [errorMessages |-> <<>>, appId |-> <<>>]
    /\ config = [useLocalAI |-> FALSE, maxResults |-> 0]
    /\ tracker = {}
    /\ runIdle
    /\ fetchIdle
    /\ hookIdle
    /\ pageIdle
    /\ restIdle
    /\ rawConversation \in RawConversations
    /\ normPc = "idle"
    /\ processed = "none"

\* one call of processConversationData
ProcessConversationData ==
    /\ normPc = "idle"
    /\ processed' = processedConversation(rawConversation)
    /\ normPc' = "returned"
    /\ UNCHANGED rawConversation
    /\ UNCHANGED notNormVars

NextNormalize == ProcessConversationData

SpecNormalize == InitNormalize /\ [][NextNormalize]_vars

----------------------------------------------------------------------------
(* The workflow of the Index page (pages/Index.tsx) around a duplicate-    *)
(* analysis run                                                            *)

MaxRuns == 1

\* conversationQuery.data and bugDetectionQuery.data of the selected conversation
hasConversationData ==
    indexConversationId # 0 /\ indexConversationId \in conversationCache

hasBugDetectionData ==
    hasConversationData /\ bugDetectionCache[indexConversationId] # "none"

stepAfterBugDetection(result) == IF result = "bug" THEN "enhancement" ELSE "not-a-bug"

notPageVars == << runVars, fetchVars, normVars, hookVars, queryVars, tokenVars, searchVars,
                 extraVars >>

\* everything but the page and its issue-creation mutation
notIssueVars == << runVars, fetchVars, normVars, hookVars, queryVars, tokenVars, searchVars,
                  gateVars, keywordVars,
                  clientVars,
                  serviceVars >>

MaxCreateCalls == 1

\* lines 288-301: the suggested actions that go on to create the issue
proceedsAlsoOnMerge(action) == action \in {"create_new", "reference", "merge"}

proceedsToCreation(action) == action \in {"create_new", "reference"}

\* lines 294-308: the toast of a suggested action
suggestionToast(action) ==
    CASE action = "reference" -> "Reference Issue"
      [] action = "merge" -> "Merge with Existing"
      [] OTHER -> "none"

InitPage ==
    /\ template = [title |-> <<>>, body |-> <<>>]
    /\ context = [errorMessages |-> <<>>, appId |-> <<>>]
    /\ config = [useLocalAI |-> FALSE, maxResults |-> 0]
    /\ tracker = {}
    /\ runIdle
    /\ fetchIdle
    /\ normIdle
    /\ hookIdle
    /\ pageIdle
    /\ restIdle

\* lines 67-122: the operator submits the URL of another conversation; with complete
\* cached data the page goes directly to the step the bug detection gives
HandleAnalyzeConversation ==
    /\ \E id \in 1..MaxConversations :
          /\ id # indexConversationId
          /\ indexConversationId' = id
          /\ currentStep' = IF id \in conversationCache /\ bugDetectionCache[id] # "none"
                            THEN stepAfterBugDetection(bugDetectionCache[id])
                            ELSE "input"
    /\ abandoned' = abandoned \cup inFlight
    /\ UNCHANGED << mcpAnalysisResult, conversationCache, bugDetectionCache, inFlight,
                    runsStarted, createIssueCalls >>
    /\ UNCHANGED notPageVars

\* useConversation resolves for the selected conversation
ConversationQuerySucceeds ==
    /\ indexConversationId # 0
    /\ indexConversationId \notin conversationCache
    /\ conversationCache' = conversationCache \cup {indexConversationId}
    /\ UNCHANGED << currentStep, indexConversationId, mcpAnalysisResult, bugDetectionCache,
                    inFlight, abandoned, runsStarted, createIssueCalls >>
    /\ UNCHANGED notPageVars

\* lines 125-130: effect on the loaded conversation
ConversationReadyEffect ==
    /\ hasConversationData
    /\ currentStep = "input"
    /\ currentStep' = "conversation-ready"
    /\ UNCHANGED << indexConversationId, mcpAnalysisResult, conversationCache,
                    bugDetectionCache, inFlight, abandoned, runsStarted, createIssueCalls >>
    /\ UNCHANGED notPageVars

\* useBugDetection resolves for the selected conversation
BugDetectionQuerySucceeds ==
    /\ hasConversationData
    /\ bugDetectionCache[indexConversationId] = "none"
    /\ \E result \in {"bug", "not_a_bug"} :
          bugDetectionCache' = [bugDetectionCache EXCEPT ![indexConversationId] = result]
    /\ UNCHANGED << currentStep, indexConversationId, mcpAnalysisResult, conversationCache,
                    inFlight, abandoned, runsStarted, createIssueCalls >>
    /\ UNCHANGED notPageVars

\* lines 133-142: effect on the bug-detection result
BugDetectionEffect ==
    /\ hasBugDetectionData
    /\ currentStep = "conversation-ready"
    /\ currentStep' = stepAfterBugDetection(bugDetectionCache[indexConversationId])
    /\ UNCHANGED << indexConversationId, mcpAnalysisResult, conversationCache,
                    bugDetectionCache, inFlight, abandoned, runsStarted, createIssueCalls >>
    /\ UNCHANGED notPageVars

\* lines 219-231: the operator submits the enhanced template (shown at step 'enhancement',
\* line 610) with duplicate detection initialized; the run is started and awaited
HandleEnhancedSubmit ==
    /\ currentStep = "enhancement"
    /\ hasBugDetectionData
    /\ runsStarted < MaxRuns
    /\ runsStarted' = runsStarted + 1
    /\ inFlight' = inFlight \cup {runsStarted + 1}
    /\ enhancedContext' = TRUE
    /\ UNCHANGED << currentStep, indexConversationId, mcpAnalysisResult, conversationCache,
                    bugDetectionCache, abandoned, createIssueCalls >>
    /\ UNCHANGED << createIssueStatus, createIssueData, createdIssue,
                    trackerRequests, lastSuggestionToast >>
    /\ UNCHANGED notIssueVars

\* lines 227-234: the awaited run resolves; its result is stored and the step is set
AnalysisResolves ==
    /\ \E run \in inFlight :
          /\ mcpAnalysisResult' = run
          /\ inFlight' = inFlight \ {run}
    /\ currentStep' = "ai-analysis"
    /\ UNCHANGED << indexConversationId, conversationCache, bugDetectionCache, abandoned,
                    runsStarted, createIssueCalls >>
    /\ UNCHANGED notPageVars

\* lines 235-244, 252-270: the awaited run rejects; the handler falls back to creating the
\* issue with the conversation data it was started with
AnalysisRejects ==
    /\ \E run \in inFlight : inFlight' = inFlight \ {run}
    /\ createIssueCalls' = createIssueCalls + 1
    /\ createIssueStatus' = "pending"
    /\ UNCHANGED << currentStep, indexConversationId, mcpAnalysisResult, conversationCache,
                    bugDetectionCache, abandoned, runsStarted >>
    /\ UNCHANGED << createIssueData, createdIssue, enhancedContext, trackerRequests,
                    lastSuggestionToast >>
    /\ UNCHANGED notIssueVars

\* lines 283-286: 'back' from the duplicate-analysis view (shown at line 638)
HandleAIAnalysisBack ==
    /\ currentStep = "ai-analysis"
    /\ mcpAnalysisResult # 0
    /\ hasConversationData
    /\ currentStep' = "enhancement"
    /\ mcpAnalysisResult' = 0
    /\ UNCHANGED << indexConversationId, conversationCache, bugDetectionCache, inFlight,
                    abandoned, runsStarted, createIssueCalls >>
    /\ UNCHANGED notPageVars

\* lines 313-321: 'Analyze Another Conversation' (shown while there is a conversation)
HandleReset ==
    /\ hasConversationData
    /\ currentStep' = "input"
    /\ mcpAnalysisResult' = 0
    /\ abandoned' = abandoned \cup inFlight
    /\ UNCHANGED << indexConversationId, conversationCache, bugDetectionCache, inFlight,
                    runsStarted, createIssueCalls >>
    /\ createdIssue' = 0
    /\ enhancedContext' = FALSE
    \* createIssueMutation.reset()
    /\ createIssueStatus' = "idle"
    /\ createIssueData' = 0
    /\ UNCHANGED << trackerRequests, lastSuggestionToast >>
    /\ UNCHANGED notIssueVars

\* lines 324-332: 'Clear Cache & Start Fresh'
HandleStartFresh ==
    /\ hasConversationData
    /\ currentStep' = "input"
    /\ indexConversationId' = 0
    /\ mcpAnalysisResult' = 0
    /\ abandoned' = abandoned \cup inFlight
    /\ UNCHANGED << conversationCache, bugDetectionCache, inFlight, runsStarted,
                    createIssueCalls >>
    /\ createdIssue' = 0
    /\ enhancedContext' = FALSE
    \* createIssueMutation.reset()
    /\ createIssueStatus' = "idle"
    /\ createIssueData' = 0
    /\ UNCHANGED << trackerRequests, lastSuggestionToast >>
    /\ UNCHANGED notIssueVars

\* lines 281-310: a suggested action other than 'back' is chosen on a scored candidate of
\* the duplicate-analysis view; 'create_new' and 'reference' go on to
\* proceedWithIssueCreation (lines 252-261), which starts the mutation (lines 264-270) if
\* there is an enhanced context and the data of the selected conversation
HandleAIAnalysisAction ==
    /\ currentStep = "ai-analysis"
    /\ mcpAnalysisResult # 0
    /\ \E action \in {"create_new", "reference", "merge"} :
          /\ proceedsToCreation(action) => createIssueCalls < MaxCreateCalls
          /\ lastSuggestionToast' =
                 IF suggestionToast(action) = "none" THEN lastSuggestionToast
                 ELSE suggestionToast(action)
          /\ IF proceedsToCreation(action) /\ enhancedContext /\ hasBugDetectionData
             THEN /\ createIssueCalls' = createIssueCalls + 1
                  /\ createIssueStatus' = "pending"
             ELSE UNCHANGED << createIssueCalls, createIssueStatus >>
    /\ UNCHANGED << currentStep, indexConversationId, mcpAnalysisResult, conversationCache,
                    bugDetectionCache, inFlight, abandoned, runsStarted >>
    /\ UNCHANGED << createIssueData, createdIssue, enhancedContext, trackerRequests >>
    /\ UNCHANGED notIssueVars

\* createGitHubIssue (githubApi.ts lines 112-138) posts the issue and the mutation succeeds
CreateIssueSucceeds ==
    /\ createIssueStatus = "pending"
    /\ trackerRequests' = Append(trackerRequests, "create_issue")
    /\ createIssueStatus' = "success"
    /\ createIssueData' = Len(trackerRequests) + 1
    /\ UNCHANGED << createdIssue, enhancedContext, lastSuggestionToast >>
    /\ UNCHANGED pageVars
    /\ UNCHANGED notIssueVars

\* the mutation ends in error (lines 270-276 show the toast)
CreateIssueFails ==
    /\ createIssueStatus = "pending"
    /\ createIssueStatus' = "error"
    /\ UNCHANGED << createIssueData, createdIssue, enhancedContext,
                    trackerRequests, lastSuggestionToast >>
    /\ UNCHANGED pageVars
    /\ UNCHANGED notIssueVars

\* lines 145-154: effect on createIssueMutation.isSuccess and the step
IssueCreatedEffect ==
    /\ createIssueStatus = "success"
    /\ currentStep \in {"enhancement", "ai-analysis"}
    /\ currentStep' = "complete"
    /\ createdIssue' = createIssueData
    /\ UNCHANGED << indexConversationId, mcpAnalysisResult, conversationCache,
                    bugDetectionCache, inFlight, abandoned, runsStarted, createIssueCalls >>
    /\ UNCHANGED << createIssueStatus, createIssueData, enhancedContext,
                    trackerRequests, lastSuggestionToast >>
    /\ UNCHANGED notIssueVars

NextPage ==
    \/ HandleAnalyzeConversation
    \/ ConversationQuerySucceeds
    \/ ConversationReadyEffect
    \/ BugDetectionQuerySucceeds
    \/ BugDetectionEffect
    \/ HandleEnhancedSubmit
    \/ AnalysisResolves
    \/ AnalysisRejects
    \/ HandleAIAnalysisBack
    \/ HandleReset
    \/ HandleStartFresh
    \/ HandleAIAnalysisAction
    \/ CreateIssueSucceeds
    \/ CreateIssueFails
    \/ IssueCreatedEffect

SpecPage == InitPage /\ [][NextPage]_vars


\* ---------------------------------------------------------------------------------------
\* One call of GitHubSearchService.searchIssues (src/src/services/githubSearch.ts 57-104)
\* ---------------------------------------------------------------------------------------

\* the queries searched for: those generated for the first template and context
SearchedQueries == Range(generateSearchQueries(RunTemplates[1], RunContexts[1]))

\* what fetch may answer to the search, with the cause of a refusal: GitHub answers an
\* exceeded rate limit with 403 or 429, a token without access to the search with 403
SearchApiResponses(existing, query) ==
    { [kind |-> "network_error", status |-> 0, cause |-> "network", items |-> <<>>] }
    \cup { [kind |-> "http", status |-> s, cause |-> "rate_limit", items |-> <<>>] :
             s \in {403, 429} }
    \cup { [kind |-> "http", status |-> 403, cause |-> "forbidden", items |-> <<>>],
           [kind |-> "http", status |-> 401, cause |-> "bad_credentials", items |-> <<>>],
           [kind |-> "http", status |-> 422, cause |-> "invalid_query", items |-> <<>>],
           [kind |-> "http", status |-> 500, cause |-> "server", items |-> <<>>],
           [kind |-> "http", status |-> 503, cause |-> "server", items |-> <<>>] }
    \cup { [kind |-> "http", status |-> 200, cause |-> "none",
            items |-> searchItems(existing, query, 1)] }

InitSearch ==
    /\ template = RunTemplates[1]
    /\ context = RunContexts[1]
    /\ config = [useLocalAI |-> FALSE, maxResults |-> 0]
    /\ tracker \in SUBSET Issues
    /\ runIdle
    /\ fetchIdle
    /\ auxIdle

notSearchVars == << runVars, fetchVars, normVars, hookVars, pageVars, queryVars, tokenVars, extraVars >>

\* lines 58-68: the request is sent
SearchIssuesRequest ==
    /\ searchResponse.kind = "none"
    /\ \E q \in SearchedQueries : searchResponse' = [kind |-> "pending", query |-> q]
    /\ UNCHANGED << searchResult, notSearchVars >>

\* lines 70-103: fetch answers and searchIssues returns the items or throws
SearchIssuesAnswer ==
    /\ searchResponse.kind = "pending"
    /\ \E response \in SearchApiResponses(tracker, searchResponse.query) :
        /\ searchResponse' = response
        /\ searchResult' = searchIssues(response)
    /\ UNCHANGED notSearchVars

NextSearch ==
    \/ SearchIssuesRequest
    \/ SearchIssuesAnswer

SpecSearch == InitSearch /\ [][NextSearch]_vars

\* ---------------------------------------------------------------------------------------
\* GitHubSearchService.validateToken (src/src/services/githubSearch.ts lines 130-175) under
\* useFrontendMCP.validateConfiguration (src/unnamed/part_001 lines 13-59)
\* ---------------------------------------------------------------------------------------

\* the configurations validateConfiguration is handed: a token and a key are present or
\* not, and there are no repositories or one
TokenConfigs ==
    [githubToken : BOOLEAN, useLocalAI : BOOLEAN, openaiKey : BOOLEAN, repositories : 0..1]

\* what fetch of https://api.github.com/user may end in: a rejection of the fetch, a
\* refusal, or the user object
UserAnswers ==
    { [kind |-> "throws", status |-> 0] }
    \cup { [kind |-> "response", status |-> s] : s \in {200, 401, 403, 500} }

\* what fetch of the probe search (q=test&per_page=1) may end in
ProbeAnswers ==
    { [kind |-> "throws", status |-> 0] }
    \cup { [kind |-> "response", status |-> s] : s \in {200, 401, 403, 422, 500} }

\* Response.ok
responseOk(status) == status >= 200 /\ status <= 299

\* line 163 with the probe answering 200 only
canSearchFromStatusOnly200(status) == status = 200

\* line 163: testSearchResponse.status === 200 || testSearchResponse.status === 422
canSearchFromStatus(status) == status = 200 \/ status = 422

\* lines 146-166: canSearchIssues starts false and a throwing probe leaves it so
canSearchFromProbe(answer) ==
    IF answer.kind = "throws" THEN FALSE ELSE canSearchFromStatus(answer.status)

\* part_001 lines 29-38: the errors the token validation adds
tokenErrors(validation) ==
    IF ~validation.valid
    THEN << "Invalid GitHub token" >>
    ELSE IF validation.canSearchIssues = FALSE
         THEN << "GitHub token cannot search issues. Please ensure it has proper permissions." >>
         ELSE << >>

\* mutant: the repository check of lines 49-52 left out
configurationResultWithoutRepositories(cfg, errors, githubUser) ==
    LET withKey == IF ~cfg.useLocalAI /\ ~cfg.openaiKey
                   THEN Append(errors, "OpenAI API key is required when not using local AI")
                   ELSE errors
    IN  [valid |-> Len(withKey) = 0, errors |-> withKey, githubUser |-> githubUser]

\* part_001 lines 43-57: the key and repository checks, and the result
configurationResult(cfg, errors, githubUser) ==
    LET withKey == IF ~cfg.useLocalAI /\ ~cfg.openaiKey
                   THEN Append(errors, "OpenAI API key is required when not using local AI")
                   ELSE errors
        withRepos == IF cfg.repositories = 0
                     THEN Append(withKey, "At least one repository must be configured")
                     ELSE withKey
    IN  [valid |-> Len(withRepos) = 0, errors |-> withRepos, githubUser |-> githubUser]

InitToken ==
    /\ template = [title |-> <<>>, body |-> <<>>]
    /\ context = [errorMessages |-> <<>>, appId |-> <<>>]
    /\ config = [useLocalAI |-> FALSE, maxResults |-> 0]
    /\ tracker = {}
    /\ runIdle
    /\ fetchIdle
    /\ normIdle
    /\ hookIdle
    /\ pageIdle
    /\ queryIdle
    /\ searchIdle
    /\ extraIdle
    /\ tokenConfig \in TokenConfigs
    /\ tokenPc = "idle"
    /\ userAnswer = "none"
    /\ probeAnswer = "none"
    /\ tokenValidation = "none"
    /\ searchProbes = 0
    /\ configValidation = "none"

notTokenVars == << runVars, fetchVars, normVars, hookVars, pageVars, queryVars, searchVars, extraVars >>

\* part_001 lines 18-27 and 43-59: validateConfiguration up to its first await.  Without a
\* token the error is pushed and the rest of the function runs at once; with one,
\* validateToken is called and fetches the user endpoint
validationStarts(cfg) ==
    IF ~cfg.githubToken
    THEN /\ configValidation' =
                configurationResult(cfg, << "GitHub token is required" >>, "undefined")
         /\ tokenPc' = "done"
    ELSE /\ configValidation' = configValidation
         /\ tokenPc' = "user_pending"

\* validateConfiguration is called with the configuration
ValidateConfiguration ==
    /\ tokenPc = "idle"
    /\ validationStarts(tokenConfig)
    /\ UNCHANGED << tokenConfig, userAnswer, probeAnswer, tokenValidation, searchProbes,
                    notTokenVars >>

\* githubSearch.ts lines 133-142 and 171-174: the user endpoint throws or refuses and
\* validateToken resolves { valid: false }; validateConfiguration goes on from line 29
UserEndpointRefuses ==
    /\ tokenPc = "user_pending"
    /\ \E a \in UserAnswers :
        /\ a.kind = "throws" \/ ~responseOk(a.status)
        /\ userAnswer' = a
    /\ tokenValidation' = [valid |-> FALSE]
    /\ configValidation' =
           configurationResult(tokenConfig, tokenErrors(tokenValidation'), "undefined")
    /\ tokenPc' = "done"
    /\ UNCHANGED << tokenConfig, probeAnswer, searchProbes, notTokenVars >>

\* githubSearch.ts lines 144-158: the user endpoint answers ok, the user object is read and
\* the probe search is sent
UserEndpointAccepts ==
    /\ tokenPc = "user_pending"
    /\ \E a \in UserAnswers :
        /\ a.kind = "response" /\ responseOk(a.status)
        /\ userAnswer' = a
    /\ searchProbes' = searchProbes + 1
    /\ tokenPc' = "probe_pending"
    /\ UNCHANGED << tokenConfig, probeAnswer, tokenValidation, configValidation,
                    notTokenVars >>

\* githubSearch.ts lines 162-170: the probe answers or throws, validateToken resolves valid
\* with the flag; validateConfiguration goes on from line 29
ProbeSearchAnswers ==
    /\ tokenPc = "probe_pending"
    /\ \E a \in ProbeAnswers :
        /\ probeAnswer' = a
        /\ tokenValidation' = [valid |-> TRUE, user |-> "octocat",
                               canSearchIssues |-> canSearchFromProbe(a)]
    /\ configValidation' =
           configurationResult(tokenConfig, tokenErrors(tokenValidation'), "octocat")
    /\ tokenPc' = "done"
    /\ UNCHANGED << tokenConfig, userAnswer, searchProbes, notTokenVars >>

NextToken ==
    \/ ValidateConfiguration
    \/ UserEndpointRefuses
    \/ UserEndpointAccepts
    \/ ProbeSearchAnswers

SpecToken == InitToken /\ [][NextToken]_vars

\* ---------------------------------------------------------------------------------------
\* useFrontendMCP.initialize and reset (src/unnamed/part_001 lines 61-85 and 138-154)
\* ---------------------------------------------------------------------------------------

\* initialize is called at most this often
MaxInitializeCalls == 2

\* useState<FrontendMCPClient | null>(null), line 8
noClient ==
    [held |-> FALSE,
     config |-> [githubToken |-> FALSE, useLocalAI |-> FALSE, openaiKey |-> FALSE,
                 repositories |-> 0]]

\* line 153: isInitialized: !!client
isInitialized == client.held

InitInitialize ==
    /\ template = [title |-> <<>>, body |-> <<>>]
    /\ context = [errorMessages |-> <<>>, appId |-> <<>>]
    /\ config = [useLocalAI |-> FALSE, maxResults |-> 0]
    /\ tracker = {}
    /\ runIdle
    /\ fetchIdle
    /\ auxIdle

notClientVars ==
    << runVars, fetchVars, normVars, hookVars, pageVars, queryVars, searchVars, gateVars,
       issueVars, keywordVars, serviceVars >>

\* lines 61-67: initialize(config) sets loading, clears the error and calls
\* validateConfiguration, which runs up to its first await
HookInitialize ==
    /\ initPc # "validating"
    /\ initializeCalls < MaxInitializeCalls
    /\ \E cfg \in TokenConfigs :
        /\ tokenConfig' = cfg
        /\ validationStarts(cfg)
    /\ loading' = TRUE
    /\ initError' = [set |-> FALSE, errors |-> << >>]
    /\ userAnswer' = "none"
    /\ probeAnswer' = "none"
    /\ tokenValidation' = "none"
    /\ searchProbes' = 0
    /\ initPc' = "validating"
    /\ initializeCalls' = initializeCalls + 1
    /\ UNCHANGED << client, notClientVars >>

\* lines 67-74 and 82-84: the validation resolved valid; the client is constructed and
\* set, loading is cleared and initialize resolves
InitializeResolves ==
    /\ initPc = "validating"
    /\ tokenPc = "done"
    /\ configValidation.valid
    /\ client' = [held |-> TRUE, config |-> tokenConfig]
    /\ loading' = FALSE
    /\ initPc' = "resolved"
    /\ UNCHANGED << initError, initializeCalls, tokenVars, notClientVars >>

\* lines 68-70 and 78-84: the validation reported errors; the Error of line 69 is caught,
\* its message is set as the error, loading is cleared and initialize rejects
InitializeRejects ==
    /\ initPc = "validating"
    /\ tokenPc = "done"
    /\ ~configValidation.valid
    /\ initError' = [set |-> TRUE, errors |-> configValidation.errors]
    /\ loading' = FALSE
    /\ initPc' = "rejected"
    /\ UNCHANGED << client, initializeCalls, tokenVars, notClientVars >>

\* lines 138-142: reset drops the client and the error
HookReset ==
    /\ client' = noClient
    /\ initError' = [set |-> FALSE, errors |-> << >>]
    /\ UNCHANGED << loading, initPc, initializeCalls, tokenVars, notClientVars >>

NextInitialize ==
    \/ HookInitialize
    \/ UserEndpointRefuses
    \/ UserEndpointAccepts
    \/ ProbeSearchAnswers
    \/ InitializeResolves
    \/ InitializeRejects
    \/ HookReset

SpecInitialize == InitInitialize /\ [][NextInitialize]_vars

\* ---------------------------------------------------------------------------------------
\* The three service functions that resolve to an ApiResponse: fetchConversation
\* (src/unnamed/part_001 lines 229-267), createGitHubIssue and detectBugFromConversation
\* (src/src/services/githubApi.ts lines 112-155 and 393-477).  A field that is absent
\* from the response is "none".
\* ---------------------------------------------------------------------------------------

\* the service functions are called at most this often
MaxServiceCalls == 2

ServiceOps == {"fetchConversation", "createGitHubIssue", "detectBugFromConversation"}

\* what each function is called with: an id; the owner and repository of the environment
\* (lines 114-115) set or not; a conversation with or without its tags array
ServiceInputs(op) ==
    CASE op = "fetchConversation" -> { [id |-> i] : i \in ConversationIds }
      [] op = "createGitHubIssue" -> { [ownerAndRepo |-> b] : b \in BOOLEAN }
      [] OTHER -> { [tags |-> b] : b \in BOOLEAN }

\* what the POST of githubApi.ts line 130 may end in, after the response interceptor of
\* lines 30-54: a 2xx response with a body, or a rejection whose Error names the cause
CreateAnswers ==
    { [kind |-> "ok", payload |-> p] :
         p \in {"issue", "empty_object", "empty_string", "undefined"} }
    \cup { [kind |-> "rejected", payload |-> m] :
             m \in {"invalid_token", "forbidden", "not_found", "unprocessable", "timeout",
                    "unexpected"} }

\* what the POST of githubApi.ts line 415 may end in, after the response interceptor of
\* lines 228-242: a 2xx response whose first choice holds the content, or none, or a
\* rejection
DetectionAnswers ==
    { [kind |-> "ok", payload |-> p] :
         p \in {"json_object", "json_null", "not_json", "null_content", "no_choices"} }
    \cup { [kind |-> "rejected", payload |-> m] :
             m \in {"invalid_key", "rate_limit", "timeout", "unexpected"} }

ServiceAnswers(op) ==
    CASE op = "fetchConversation" -> ConversationAnswers
      [] op = "createGitHubIssue" -> CreateAnswers
      [] OTHER -> DetectionAnswers

errorResponse(code, message) ==
    [success |-> FALSE, code |-> code, message |-> message, data |-> "none"]

successResponse(data) ==
    [success |-> TRUE, code |-> "none", message |-> "none", data |-> data]

\* mutant: createGitHubIssue without the log of line 138, which reads response.data.html_url
createGitHubIssueResultUnlogged(answer) ==
    IF answer.kind = "ok"
    THEN successResponse(IF answer.payload = "undefined" THEN "none" ELSE answer.payload)
    ELSE errorResponse("CREATE_ERROR", answer.payload)

\* createGitHubIssue, githubApi.ts lines 130-155, with owner and repository set, on what
\* the POST ends in: line 138 reads response.data.html_url and throws a TypeError on a
\* response without data; any other body is returned as the data
createGitHubIssueResult(answer) ==
    IF answer.kind = "ok" /\ answer.payload # "undefined"
    THEN successResponse(answer.payload)
    ELSE errorResponse("CREATE_ERROR",
                       IF answer.kind = "rejected" THEN answer.payload ELSE "type_error")

\* detectBugFromConversation, githubApi.ts lines 415-471, on what the POST ends in: line
\* 432 throws outside the inner try when there is no choice (DETECTION_ERROR); JSON.parse
\* throwing, or yielding null whose isBug is then read, is caught by the inner catch
\* (PARSE_ERROR); an object is completed with the defaults of lines 441-452
detectBugFromConversationResult(answer) ==
    IF answer.kind = "rejected"
    THEN errorResponse("DETECTION_ERROR", answer.payload)
    ELSE IF answer.payload = "no_choices"
         THEN errorResponse("DETECTION_ERROR", "type_error")
         ELSE IF answer.payload = "json_object"
              THEN successResponse("detection")
              ELSE errorResponse("PARSE_ERROR", "Failed to parse bug detection results")

\* the part of each function before its request: INVALID_ID (part_001 lines 231-239),
\* MISSING_CONFIG (githubApi.ts lines 117-125), and the TypeError of conversation.tags.join
\* (githubApi.ts line 408) caught at line 465; "none" when the request is issued
resolvesBeforeRequest(op, input) ==
    CASE op = "fetchConversation" /\ ~validateConversationId(input.id) ->
            errorResponse("INVALID_ID", "Conversation ID must be a numeric value")
      [] op = "createGitHubIssue" /\ ~input.ownerAndRepo ->
            errorResponse("MISSING_CONFIG",
                          "GitHub owner and repository must be configured in environment variables")
      [] op = "detectBugFromConversation" /\ ~input.tags ->
            errorResponse("DETECTION_ERROR", "type_error")
      [] OTHER -> noResponse

serviceResult(op, answer) ==
    CASE op = "fetchConversation" -> fetchConversationResult(answer)
      [] op = "createGitHubIssue" -> createGitHubIssueResult(answer)
      [] OTHER -> detectBugFromConversationResult(answer)

InitServices ==
    /\ template = [title |-> <<>>, body |-> <<>>]
    /\ context = [errorMessages |-> <<>>, appId |-> <<>>]
    /\ config = [useLocalAI |-> FALSE, maxResults |-> 0]
    /\ tracker = {}
    /\ runIdle
    /\ fetchIdle
    /\ auxIdle

notServiceVars ==
    << runVars, fetchVars, normVars, hookVars, pageVars, queryVars, tokenVars, searchVars,
       gateVars, issueVars, keywordVars, clientVars >>

\* a service function is called: it resolves before any request, or issues its request
CallService ==
    /\ servicePc \in {"idle", "resolved"}
    /\ serviceCalls < MaxServiceCalls
    /\ \E op \in ServiceOps :
        \E input \in ServiceInputs(op) :
            /\ serviceOp' = op
            /\ serviceInput' = input
            /\ serviceResponse' = resolvesBeforeRequest(op, input)
            /\ servicePc' = IF resolvesBeforeRequest(op, input) = noResponse
                            THEN "pending" ELSE "resolved"
    /\ serviceCalls' = serviceCalls + 1
    /\ UNCHANGED notServiceVars

\* the request settles and the function resolves with its ApiResponse
ServiceRequestSettles ==
    /\ servicePc = "pending"
    /\ \E answer \in ServiceAnswers(serviceOp) :
          serviceResponse' = serviceResult(serviceOp, answer)
    /\ servicePc' = "resolved"
    /\ UNCHANGED << serviceOp, serviceInput, serviceCalls, notServiceVars >>

NextServices ==
    \/ CallService
    \/ ServiceRequestSettles

SpecServices == InitServices /\ [][NextServices]_vars
----------------------------------------------------------------------------
(* Properties                                                              *)

idsOf(arr) == {arr[i].id : i \in 1..Len(arr)}

issueIdsOf(arr) == {arr[i].issue.id : i \in 1..Len(arr)}

returnedIds == {r.id : r \in returned}

FallbackReasoning == "Fallback to basic similarity (AI analysis failed)"

\* C1: if every generated query's search call fails, the run ends in failure; it never
\* resolves successfully (with an empty result list)
C1_AllSearchesFailedRunFails ==
    pc = "done" => ~(searchesOk = 0 /\ searchesFailed = Len(searchQueries))

\* C2: once all searches have returned, the candidates handed to scoring are exactly the
\* ids returned by the successful searches, each id once, and the copy kept for an id is
\* the one of the earliest query that returned it
C2_UniqueCandidatesFirstCopy ==
    pc \in {"scoring", "done"} =>
        /\ idsOf(uniqueIssues) = returnedIds
        /\ \A i, j \in 1..Len(uniqueIssues) :
              uniqueIssues[i].id = uniqueIssues[j].id => i = j
        /\ \A i \in 1..Len(uniqueIssues) : \A r \in returned :
              r.id = uniqueIssues[i].id => uniqueIssues[i].fromQuery <= r.fromQuery

\* two queries returned overlapping but different sets of issues
C2_Witness ==
    /\ pc = "scoring"
    /\ \E r1, r2, r3 \in returned :
          /\ r1.id = r2.id /\ r1.fromQuery < r2.fromQuery
          /\ r3.id # r1.id /\ r3.fromQuery = r2.fromQuery
          /\ ~(\E r4 \in returned : r4.id = r3.id /\ r4.fromQuery = r1.fromQuery)
    /\ Len(uniqueIssues) >= 2

\* C3 as stated: every candidate whose judge call failed appears in the final ranked
\* output with the fallback reasoning and the lexical score
C3_FailedJudgeCandidateInOutput ==
    pc = "done" =>
        \A id \in judgeFailed :
            \E i \in 1..Len(sortedResults) :
                /\ sortedResults[i].issue.id = id
                /\ sortedResults[i].reasoning = FallbackReasoning
                /\ sortedResults[i].similarity_score =
                       calculateBasicSimilarity(sortedResults[i].issue, template, context)

\* C3 as amended: every candidate whose judge call failed is scored all the same, with
\* the fallback reasoning and the lexical score, a number in [0,1]; the run goes on, and
\* the candidate is in the final output unless the output is cut at the maximum result
\* count and already holds that many entries
C3_FailedJudgeCandidateScoredByFallback ==
    /\ judgeFailed # {} => pc \in {"scoring", "done"}
    /\ \A id \in judgeFailed :
          \E i \in 1..Len(analyzedIssues) :
              /\ analyzedIssues[i].issue.id = id
              /\ analyzedIssues[i].reasoning = FallbackReasoning
              /\ analyzedIssues[i].similarity_score =
                     calculateBasicSimilarity(analyzedIssues[i].issue, template, context)
              /\ numGE(analyzedIssues[i].similarity_score, <<0, 1>>)
              /\ numGE(<<1, 1>>, analyzedIssues[i].similarity_score)
    /\ pc = "done" =>
          \A id \in judgeFailed :
              \/ id \in issueIdsOf(sortedResults)
              \/ Len(sortedResults) = effectiveMaxResults(config)

\* a run is done, a candidate whose judge call failed is in its output and another one
\* was cut from it
C3_Witness ==
    /\ pc = "done"
    /\ \E id \in judgeFailed : id \in issueIdsOf(sortedResults)
    /\ \E id \in judgeFailed : id \notin issueIdsOf(sortedResults)

\* C4: every similarity score of a scored candidate is a number in [0,1]
C4_ScoresInUnitInterval ==
    \A i \in 1..Len(analyzedIssues) :
        /\ IsNumber(analyzedIssues[i].similarity_score)
        /\ numGE(analyzedIssues[i].similarity_score, <<0, 1>>)
        /\ numGE(<<1, 1>>, analyzedIssues[i].similarity_score)

\* C5: the result is the scored candidates in non-increasing order of score, cut to the
\* maximum result count (10 when none is configured); no candidate left out has a
\* strictly higher score than one kept
C5_SortedAndTruncated ==
    pc = "done" =>
        /\ Len(sortedResults) = Min(Len(uniqueIssues), effectiveMaxResults(config))
        /\ issueIdsOf(sortedResults) \subseteq idsOf(uniqueIssues)
        /\ \A i, j \in 1..Len(sortedResults) :
              i < j => ~numLT(sortedResults[i].similarity_score,
                              sortedResults[j].similarity_score)
        /\ \A i \in 1..Len(sortedResults) : \A k \in 1..Len(analyzedIssues) :
              analyzedIssues[k].issue.id \notin issueIdsOf(sortedResults)
                  => ~numLT(sortedResults[i].similarity_score,
                            analyzedIssues[k].similarity_score)

\* C6: a candidate scored at 0.8 or more is a duplicate to merge, a candidate scored
\* below 0.8 is related and to be referenced
C6_Classification ==
    \A i \in 1..Len(analyzedIssues) :
        LET e == analyzedIssues[i]
        IN  /\ numGE(e.similarity_score, <<8, 10>>)
                => e.relationship_type = "duplicate" /\ e.suggested_action = "merge"
            /\ numLT(e.similarity_score, <<8, 10>>)
                => e.relationship_type = "related" /\ e.suggested_action = "reference"

\* candidates scored 0.85 and 0.65 by the judge, and one scored below 0.6 by the fallback
C6_Witness ==
    /\ \E i \in 1..Len(analyzedIssues) :
          /\ analyzedIssues[i].similarity_score = <<85, 100>>
          /\ analyzedIssues[i].relationship_type = "duplicate"
    /\ \E i \in 1..Len(analyzedIssues) :
          /\ analyzedIssues[i].similarity_score = <<65, 100>>
          /\ analyzedIssues[i].suggested_action = "reference"
    /\ \E i \in 1..Len(analyzedIssues) :
          /\ numLT(analyzedIssues[i].similarity_score, <<6, 10>>)
          /\ analyzedIssues[i].relationship_type = "related"

\* C7: a failed search is skipped: every query is still searched, and every issue a
\* successful search returned is deduplicated, scored and ranked
C7_FailedSearchSkipped ==
    /\ pc = "searching" => searchesOk + searchesFailed = qi - 1
    /\ pc \in {"scoring", "done"} =>
          /\ searchesOk + searchesFailed = Len(searchQueries)
          /\ returnedIds \subseteq idsOf(uniqueIssues)
    /\ pc = "done" =>
          /\ returnedIds \subseteq issueIdsOf(analyzedIssues)
          /\ Len(analyzedIssues) <= effectiveMaxResults(config)
                => returnedIds \subseteq issueIdsOf(sortedResults)

\* a search failed, the last query was searched all the same, and an issue only it
\* returned is in the output
C7_Witness ==
    /\ pc = "done"
    /\ searchesFailed >= 1
    /\ \E r \in returned :
          /\ r.fromQuery = Len(searchQueries)
          /\ r.id \in issueIdsOf(sortedResults)
          /\ \A r2 \in returned : r2.id = r.id => r2.fromQuery = r.fromQuery

\* C8: the query generator returns a non-empty sequence without duplicate entries
C8_QueriesNonEmptyDistinct ==
    pc = "generated" =>
        /\ Len(searchQueries) > 0
        /\ \A i, j \in 1..Len(searchQueries) : searchQueries[i] = searchQueries[j] => i = j

\* the generator pushed the same query twice
C8_Witness ==
    /\ pc = "generated"
    /\ LET raw == rawQueries(template, context)
       IN  \E i, j \in 1..Len(raw) : i < j /\ j <= 8 /\ raw[i] = raw[j] /\ Len(raw[i]) > 2

\* position of the first entry of the pushed queries that is q once trimmed; 0 if none
firstPushed(raw, q) ==
    IF \E i \in 1..Len(raw) : trim(raw[i]) = q
    THEN CHOOSE i \in 1..Len(raw) : trim(raw[i]) = q /\ \A j \in 1..(i - 1) : trim(raw[j]) # q
    ELSE 0

\* C9: at most 8 queries, each trimmed and of a length above 2 and below 50, in the
\* order in which they were first pushed
C9_QueriesBoundedOrdered ==
    pc = "generated" =>
        LET raw == rawQueries(template, context)
        IN  /\ Len(searchQueries) <= 8
            /\ \A i \in 1..Len(searchQueries) :
                  /\ trim(searchQueries[i]) = searchQueries[i]
                  /\ Len(searchQueries[i]) > 2
                  /\ Len(searchQueries[i]) < 50
                  /\ firstPushed(raw, searchQueries[i]) > 0
            /\ \A i, j \in 1..Len(searchQueries) :
                  i < j => firstPushed(raw, searchQueries[i]) < firstPushed(raw, searchQueries[j])

\* more than 8 queries were pushed, one of them with surrounding whitespace
C9_Witness ==
    /\ pc = "generated"
    /\ LET raw == rawQueries(template, context)
       IN  /\ Len(raw) > 8
           /\ \E i \in 1..Len(raw) : trim(raw[i]) # raw[i]
    /\ Len(searchQueries) = 8

\* a string of one or more digits and nothing else
purelyNumeric(s) == Len(s) > 0 /\ \A i \in 1..Len(s) : s[i] \in Digits

\* C10 as stated: an id that is not purely numeric is rejected with INVALID_ID and no
\* request is issued for it
C10_NonNumericRejected ==
    (fetchPc \in {"awaiting", "resolved"} /\ ~purelyNumeric(conversationId)) =>
        /\ fetchPc = "resolved"
        /\ apiResponse.code = "INVALID_ID"
        /\ Len(requests) = requestsAtCall

\* C10 as amended: an id that is not purely numeric once surrounding whitespace is
\* trimmed is rejected with INVALID_ID and no request is issued for it; an id that is
\* all digits once trimmed passes, and exactly one request, for the trimmed id, is issued
C10_TrimmedIdValidated ==
    fetchPc \in {"awaiting", "resolved"} =>
        IF purelyNumeric(trim(conversationId))
        THEN /\ Len(requests) = requestsAtCall + 1
             /\ requests[Len(requests)] = trim(conversationId)
             /\ apiResponse.code # "INVALID_ID"
        ELSE /\ fetchPc = "resolved"
             /\ ~apiResponse.success
             /\ apiResponse.code = "INVALID_ID"
             /\ Len(requests) = requestsAtCall

\* "12345" was fetched, then "abc" was rejected without a request
C10_Witness ==
    /\ fetchPc = "resolved"
    /\ conversationId = <<"a","b","c">>
    /\ apiResponse.code = "INVALID_ID"
    /\ requests = << <<"1","2","3","4","5">> >>


\* C22: a conversation whose fetch last ended in a payload without thread-opening message
\* (it makes the normalizer throw) or in a rejected request has no conversation data, and
\* the bug detection was never called for a conversation without data: every conversation
\* it was called for was fetched and normalized.
C22_NoBugDetectionAfterFailedNormalization ==
    /\ \A id \in 1..MaxConversations :
          gateQueries[id].lastAnswer \notin {"none", "usable"}
              => /\ gateQueries[id].status # "success"
                 /\ id \notin bugDetectionIssued
    /\ \A id \in bugDetectionIssued :
          /\ gateQueries[id].status = "success"
          /\ gateQueries[id].lastAnswer = "usable"

\* the selected conversation's payload had no source on every attempt, its query ended in
\* error, and the bug detection ran for another conversation only
C22_Witness ==
    /\ gateConversation # 0
    /\ gateQueries[gateConversation].status = "error"
    /\ gateQueries[gateConversation].lastAnswer = "no_source"
    /\ gateConversation \notin bugDetectionIssued
    /\ bugDetectionIssued # {}
----------------------------------------------------------------------------
(* Properties of the hook over both engines                                *)

\* C14: whichever engine is configured, a run that delivers a result has generated the
\* queries, searched once per query, deduplicated what the searches returned, scored
\* every unique candidate and delivers the ranked, truncated candidates
C14_EnginesWorkIdentically ==
    hookPc = "resolved" =>
        /\ Len(searchQueries) > 0
        /\ searchesOk + searchesFailed = Len(searchQueries)
        /\ idsOf(uniqueIssues) = returnedIds
        /\ Len(analyzedIssues) = Len(uniqueIssues)
        /\ analysisResult.analyzed_issues = limitResults(analyzedIssues, config)

\* C17: the analysis rejects only when no model is available (the local engine was not
\* loaded when the run started); no search, scoring or completion failure makes it reject
C17_RejectsOnlyWithoutEngine ==
    hookPc = "rejected" => hookError = "WebLLM not initialized"

\* C18: total_searched of the result of a remote-judge run is the number of unique
\* candidates that were scored, also when the result is truncated to fewer
C18_TotalSearchedIsScoredCount ==
    (hookPc = "resolved" /\ ~config.useLocalAI) =>
        analysisResult.total_searched = Len(uniqueIssues)


\* C25: with local inference configured, an analysis accepted by the initialized client
\* never fails because the local engine is not ready, and a failed engine load is
\* reported through the hook's error rather than lost
C25_InitializedClientHasEngine ==
    config.useLocalAI =>
        /\ hookError # "WebLLM not initialized"
        /\ (engine = "failed" => hookError # "none")

\* whether a is b with some elements left out
RECURSIVE isSubsequence(_, _)
isSubsequence(a, b) ==
    IF Len(a) = 0 THEN TRUE
    ELSE IF Len(b) = 0 THEN FALSE
         ELSE IF a[1] = b[1] THEN isSubsequence(Tail(a), Tail(b))
              ELSE isSubsequence(a, Tail(b))

\* C24: extracting the keywords of the keywords joined by spaces gives the keywords again;
\* there are at most 20 of them; each is in lower case, longer than 2 characters and no
\* stop word; and they stand in the order in which the text has them.
C24_ExtractKeywordsIdempotentBounded ==
    keywordPc = "returned" =>
        /\ extractKeywords(joinWords(keywords)) = keywords
        /\ Len(keywords) <= 20
        /\ \A i \in 1..Len(keywords) :
              /\ toLowerCase(keywords[i]) = keywords[i]
              /\ Len(keywords[i]) > 2
              /\ keywords[i] \notin commonWords
        /\ isSubsequence(keywords,
                         splitAtWhitespace(removePunctuation(toLowerCase(keywordText))))

\* a text of more than 20 kept words, some written with capitals and punctuation, was cut
\* to 20 keywords
C24_Witness ==
    /\ keywordPc = "returned"
    /\ Len(keywords) = 20
    /\ \E i \in 1..Len(keywordText) : keywordText[i] \in Range(UpperCaseLetters)
    /\ \E i \in 1..Len(keywordText) : keywordText[i] \notin WordChars \cup WhiteSpace
    /\ Len(splitAtWhitespace(keywordText)) > 21
----------------------------------------------------------------------------
(* Properties of the normalizer                                            *)

\* the authors of the customer messages with a body of a payload, in thread order: the
\* thread-opening message first, then the comment parts
customerAuthorsOf(raw) ==
    (IF raw.source.author.type = "user" /\ raw.source.body # ""
     THEN << raw.source.author >> ELSE <<>>)
    \o filterIdx([i \in 1..Len(raw.parts) |-> raw.parts[i].author],
                 {i \in 1..Len(raw.parts) :
                     /\ raw.parts[i].author.type = "user"
                     /\ raw.parts[i].body # ""
                     /\ raw.parts[i].part_type = "comment"},
                 1)

\* C11: when a conversation has a customer message with a body (the thread-opening
\* message included) and a first contact that disagrees with that message's author, the
\* resolved customer name and email are those of the first such message's author
C11_CustomerIsFirstMessageAuthor ==
    normPc = "returned" =>
        LET authors == customerAuthorsOf(rawConversation)
            contacts == rawConversation.contacts
        IN  ( /\ Len(authors) > 0
              /\ Len(contacts) > 0
              /\ \/ authors[1].name # contacts[1].name
                 \/ authors[1].email # contacts[1].email )
            => /\ processed.customerName = authors[1].name
               /\ processed.customerEmail = authors[1].email

\* C12: the messages of the normalized conversation are in non-decreasing timestamp
\* order, whatever order and timestamps the conversation parts carry
C12_MessagesNonDecreasing ==
    normPc = "returned" =>
        \A i, j \in 1..Len(processed.messages) :
            i < j => processed.messages[i].createdAt <= processed.messages[j].createdAt

\* the priority the stated rules give, a rating of 0 counting as a low rating
statedPriority(raw) ==
    IF raw.priority = "priority" THEN "high"
    ELSE IF raw.rating.present /\ raw.rating.value <= 2 THEN "high"
    ELSE IF \/ someTagIncludes(allTagsOf(raw), <<"u","r","g","e","n","t">>)
            \/ someTagIncludes(allTagsOf(raw), <<"c","r","i","t","i","c","a","l">>) THEN "high"
    ELSE IF someTagIncludes(allTagsOf(raw), <<"l","o","w">>) THEN "low"
    ELSE "medium"

\* C13: the priority is the first match of: high-priority flag -> high; rating at or
\* below 2 (0 included) -> high; a tag holding urgent or critical -> high; a tag holding
\* low -> low; else medium
C13_PriorityFirstMatch ==
    normPc = "returned" => processed.priority = statedPriority(rawConversation)

----------------------------------------------------------------------------
(* Properties of the page workflow                                         *)

\* C15: a run that was in flight when the operator reset the workflow or started
\* analysing another conversation is abandoned: the result stored by the page (and shown
\* by the duplicate-analysis view the same handler moves to) is never that of such a run
C15_AbandonedRunDiscarded == mcpAnalysisResult \notin abandoned


MergeToast == "Merge with Existing"

\* C23: the tracker is only ever written to by creating an issue, one request for each
\* creation that succeeded, and a step in which the suggested action 'merge' is chosen
\* (it shows the merge toast) starts no creation, sends no request and leaves the workflow
\* step and the mutation as they were.
C23_MergeOnlySuggests ==
    /\ [](\A i \in 1..Len(trackerRequests) : trackerRequests[i] = "create_issue")
    /\ [](Len(trackerRequests) <= createIssueCalls)
    /\ [][(lastSuggestionToast # MergeToast /\ lastSuggestionToast' = MergeToast)
            => /\ currentStep' = currentStep
               /\ createIssueCalls' = createIssueCalls
               /\ createIssueStatus' = createIssueStatus
               /\ trackerRequests' = trackerRequests]_vars

\* 'merge' was chosen on a candidate of the duplicate-analysis view, after an issue had been
\* created by an earlier submission
C23_Witness ==
    /\ lastSuggestionToast = MergeToast
    /\ currentStep = "ai-analysis"
    /\ createIssueStatus = "success"
    /\ trackerRequests = << "create_issue" >>
    /\ createIssueCalls = 1

\* C26: the workflow becomes 'complete' only in response to a creation that succeeded for
\* the analysis at hand, never on the success of an earlier one: in every step in which
\* the workflow step becomes 'complete', the issue then shown is one that was not shown
\* before (the one created last is new).
C26_CompleteOnlyAfterNewCreation ==
    [][(currentStep # "complete" /\ currentStep' = "complete")
          => createdIssue' # createdIssue]_vars

\* every score of a list of scored entries is a number
allScoresNumbers(arr) == \A i \in 1..Len(arr) : IsNumber(arr[i].similarity_score)

\* C21: the ranked list of a finished run is the same for every order in which the same
\* candidates with the same (numeric) scores could have been discovered and scored:
\* ranking and cutting any reordering of the scored entries gives the output of the run.
C21_OutputIndependentOfDiscoveryOrder ==
    (pc = "done" /\ allScoresNumbers(analyzedIssues)) =>
        \A other \in permutationsOf(analyzedIssues) :
            \A sorted \in sortOutcomes(other) :
                limitResults(sorted, config) = sortedResults

\* C28: in every entry of a remote-judge run's result, relationship_type is 'duplicate'
\* exactly when suggested_action is 'merge' and exactly when similarity_score >= 0.8, and
\* otherwise the pair is ('related', 'reference'), for judge-scored and fallback-scored
\* candidates alike; no other value of either field is produced
C28_TypeAndActionFollowScore ==
    pc = "done" =>
        \A i \in 1..Len(sortedResults) :
            LET e == sortedResults[i]
                atLeastDuplicate == numGE(e.similarity_score, DuplicateThreshold)
            IN  /\ (e.relationship_type = "duplicate") <=> (e.suggested_action = "merge")
                /\ (e.relationship_type = "duplicate") <=> atLeastDuplicate
                /\ ~atLeastDuplicate =>
                      e.relationship_type = "related" /\ e.suggested_action = "reference"
                /\ e.relationship_type \notin {"dependency", "follow-up"}
                /\ e.suggested_action \notin {"update_existing", "create_new"}

\* a result holding a judge-scored duplicate, a judge-scored related candidate and a
\* fallback-scored candidate
C28_Witness ==
    /\ pc = "done"
    /\ \E i, j, k \in 1..Len(sortedResults) :
          /\ sortedResults[i].issue.id \notin judgeFailed
          /\ sortedResults[i].suggested_action = "merge"
          /\ sortedResults[j].issue.id \notin judgeFailed
          /\ sortedResults[j].similarity_score = <<65, 100>>
          /\ sortedResults[j].relationship_type = "related"
          /\ sortedResults[k].issue.id \in judgeFailed
          /\ numLT(sortedResults[k].similarity_score, RelatedThreshold)
          /\ sortedResults[k].suggested_action = "reference"

\* the error classes that are to be surfaced without a retry
SurfacedAtOnce == {"input_validation", "auth"}

\* C16: an invocation of the conversation fetch, the bug detection or the issue creation
\* that fails with an input-validation error or with an invalid-credential error ends the
\* operation in error: no retry is scheduled after it.
C16_SurfacedAfterSingleAttempt ==
    (failures # << >> /\ failures[Len(failures)] \in SurfacedAtOnce) => queryPc = "error"

\* C27: for one mutate call of useCreateGitHubIssue the tracker creates at most one issue,
\* also when a creation request times out and the retry of line 88 invokes
\* createGitHubIssue again
C27_AtMostOneIssuePerSubmission ==
    queryOp = "createIssue" => issuesCreated <= 1

\* C20: a search answered with a non-2xx status rejects and returns no candidates, and its
\* error tells the cases apart: a rate-limit answer gives the rate-limit error, a 422 the
\* invalid-query error, and every other non-2xx answer the generic error that carries the
\* status.
C20_DistinctSearchErrors ==
    (searchResponse.kind = "http"
        /\ ~(searchResponse.status >= 200 /\ searchResponse.status <= 299)) =>
        /\ searchResult.threw
        /\ searchResult.issues = << >>
        /\ IF searchResponse.cause = "rate_limit"
           THEN searchResult.error = "rate_limit"
           ELSE IF searchResponse.status = 422
                THEN searchResult.error = "invalid_query"
                ELSE /\ searchResult.error = "api_error"
                     /\ searchResult.status = searchResponse.status

CannotSearchError ==
    "GitHub token cannot search issues. Please ensure it has proper permissions."

errorsOf(result) == { result.errors[i] : i \in 1..Len(result.errors) }

\* C19: once the configuration of a token is validated: if the user endpoint refused the
\* token, the validation is not valid and no probe search was made; if it accepted the
\* token, the validation is valid with canSearchIssues true exactly when the probe search
\* answered 200 or 422 (false for any other status and when the probe threw); and whenever
\* the validation is valid with canSearchIssues false the configuration is reported invalid
\* with the cannot-search error.
C19_SearchCapabilityFlag ==
    (tokenPc = "done" /\ tokenConfig.githubToken) =>
        /\ (userAnswer.kind = "throws" \/ ~responseOk(userAnswer.status)) =>
               /\ tokenValidation.valid = FALSE
               /\ searchProbes = 0
        /\ (userAnswer.kind = "response" /\ responseOk(userAnswer.status)) =>
               /\ tokenValidation.valid = TRUE
               /\ searchProbes = 1
               /\ tokenValidation.canSearchIssues =
                      (probeAnswer.kind = "response" /\ probeAnswer.status \in {200, 422})
               /\ (~tokenValidation.canSearchIssues) =>
                      /\ CannotSearchError \in errorsOf(configValidation)
                      /\ ~configValidation.valid

\* a token the user endpoint accepted and the probe answered 422 for: it can search
C19_Witness ==
    /\ tokenPc = "done"
    /\ tokenConfig.githubToken
    /\ tokenValidation.valid
    /\ probeAnswer.kind = "response"
    /\ probeAnswer.status = 422
    /\ tokenValidation.canSearchIssues
    /\ CannotSearchError \notin errorsOf(configValidation)

\* the checks of validateConfiguration all pass for the configuration under validation:
\* a token the user endpoint accepts and that can search, a key or local AI, a repository
validationPasses ==
    /\ tokenConfig.githubToken
    /\ userAnswer.kind = "response" /\ responseOk(userAnswer.status)
    /\ probeAnswer.kind = "response" /\ probeAnswer.status \in {200, 422}
    /\ tokenConfig.useLocalAI \/ tokenConfig.openaiKey
    /\ tokenConfig.repositories > 0

\* C29: the hook holds a client only for a configuration whose validation passed: every
\* error of validateConfiguration (missing or invalid token, token unable to search,
\* missing key without local AI, no repository) makes the validation invalid; initialize
\* then rejects, records the errors and leaves the client as it was; a client is set only
\* by an initialize whose validation was valid, for the validated configuration; and
\* loading is false once initialize has settled
C29_ClientOnlyForValidConfiguration ==
    /\ [](tokenPc = "done" => (configValidation.valid <=> validationPasses))
    /\ [](isInitialized =>
             /\ client.config.githubToken
             /\ client.config.useLocalAI \/ client.config.openaiKey
             /\ client.config.repositories > 0)
    /\ [](initPc \in {"resolved", "rejected"} => ~loading)
    /\ [][(initPc = "validating" /\ initPc' # "validating" /\ ~validationPasses)
             => /\ initPc' = "rejected"
                /\ initError'.set /\ initError'.errors # << >>
                /\ client' = client
                /\ ~loading']_vars
    /\ [][(client' # client /\ client'.held)
             => /\ initPc = "validating" /\ initPc' = "resolved"
                /\ validationPasses
                /\ client'.config = tokenConfig]_vars

\* a second initialize, with a token that cannot search, was rejected: the error is
\* recorded, loading is false and the client of the first initialize is still held
C29_Witness ==
    /\ initPc = "rejected"
    /\ initializeCalls = 2
    /\ isInitialized
    /\ client.config # tokenConfig
    /\ initError.set
    /\ initError.errors = << CannotSearchError >>
    /\ ~loading

\* C30: fetchConversation, createGitHubIssue and detectBugFromConversation never reject:
\* whatever the request ends in, the call resolves to a response in which success = true
\* implies data present and error absent, and success = false implies an error with a code
\* and a message present and data absent
C30_ApiResponseShape ==
    /\ servicePc \in {"idle", "pending", "resolved"}
    /\ servicePc = "resolved" =>
          IF serviceResponse.success
          THEN /\ serviceResponse.data # "none"
               /\ serviceResponse.code = "none"
               /\ serviceResponse.message = "none"
          ELSE /\ serviceResponse.code # "none"
               /\ serviceResponse.message # "none"
               /\ serviceResponse.data = "none"

\* a creation whose 2xx response carried no data resolved with CREATE_ERROR
C30_Witness ==
    /\ servicePc = "resolved"
    /\ serviceOp = "createGitHubIssue"
    /\ serviceInput.ownerAndRepo
    /\ serviceResponse = errorResponse("CREATE_ERROR", "type_error")
====
